---------------------------- MODULE Spec2Model ----------------------------
(***************************************************************************)
(* Model of the samantha-llm subconscious pipeline:                        *)
(*   - conversation_chunker.py   (ConversationChunker)                     *)
(*   - session_workspace.py      (SessionWorkspace: status + manifest)     *)
(*   - subconscious_worker.py    (worker main, chunk coordinator, merger)  *)
(*   - chunk_retry.py            (retry coordinator)                       *)
(*                                                                         *)
(* Two specifications share the module's variables.  SpecChunk applies the *)
(* pure function ConversationChunker.chunk to bounded inputs.  Spec is the *)
(* worker process of one session followed by retry runs.                   *)
(*                                                                         *)
(* Python strings are sequences of one-character strings.  Python offsets  *)
(* are 0-based and half open: text[s:e] is SubSeq(text, s + 1, e).         *)
(***************************************************************************)
EXTENDS Integers, Sequences, FiniteSets, TLC

VARIABLES
    \* ---- ConversationChunker (SpecChunk) ----
    text,            \* chunk() argument: the conversation text
    strategy,        \* chunk() argument
    target_size,     \* self.target_size
    min_size,        \* self.min_size
    chunks,          \* the list chunk() returned
    chunk_pc,        \* "input" | "returned" | "raised"
    \* ---- one session's workspace (files on disk) ----
    status_file,     \* status.json: Absent or the status document
    status_writes,   \* number of times status.json has been written
    manifest_file,   \* manifest.json: Absent or the manifest document
    parsed_files,    \* chunk numbers n with parsed_<sid>_chunk<n>.txt on disk
    merged_file,     \* analysis_<sid>_parsed.md: Absent or the merged result
    lockfile,        \* .processing.lock exists
    \* ---- worker process (subconscious_worker.main) ----
    wpc,             \* position of the worker process
    total,           \* len(chunks) of the coordinator pass (0 before it)
    chunk_num,       \* loop variable of _analyze_with_chunking
    chunk_results,   \* the in-memory list of successful results
    llm_analysis,    \* what process_transcript_llm returned
    accumulated_context, \* the context summary carried to the next chunk
    \* ---- retry process (chunk_retry.retry_session) ----
    rpc,             \* position of the retry process
    failed_chunks,   \* the list get_failed_chunks returned to this run
    ridx,            \* index into failed_chunks of the chunk being retried
    wait_time,       \* seconds slept before the current retry (0: no sleep)
    success_count,   \* chunks recovered by this run
    retry_input,     \* the content of the chunk file the retry hands to the analyzer
    \* ---- history (not program state) ----
    pass_result,     \* per chunk: what the analyzer did in the coordinator pass
    calls,           \* per chunk: number of analyzer invocations
    retries,         \* per chunk: number of retries started
    \* ---- one JSON document write of SessionWorkspace (SpecStore) ----
    json_file,       \* the text of the file on disk, as a sequence of tokens
    store_pc,        \* position of the writing process
    store_old,       \* the document the file held when the call began
    store_new,       \* the document the call writes
    store_returned,  \* the documents of the calls that have returned
    store_read,      \* what a read after the writer's death gave
    \* ---- the merge process over the sessions of a cerebrum (SpecMerge) ----
    workspaces,      \* session id -> the workspace under sessions/ (or none)
    archive,         \* session id -> the workspace under processed/ (or none)
    shared_guidance, \* the shared guidance.md: no file, or its lines
    shared_memory,   \* short-term-memory: file name -> content
    merge_pc,        \* position of the merge process
    merge_completed, \* the list `completed` of the running merge
    merge_idx,       \* index into merge_completed of the session in work
    merge_clock,     \* number of merge runs started (the time of the run)
    \* ---- history of the merge (not program state) ----
    merge_clean,     \* the last run merged sessions and ran to its end
    \* ---- one call of _merge_chunk_results (SpecMerger) ----
    merger_results,  \* the argument chunk_results
    merger_merged,   \* the value returned
    merger_pc,       \* "idle", "ready" (before the call) or "done"
    \* ---- split point selection on a long text (SpecSplit) ----
    split_boundaries, \* the dict of _find_boundaries: position -> reason
    split_spans,     \* <<start_char, end_char>> of the chunks made
    split_pc,        \* "idle", "ready" (before the call) or "done"
    \* ---- two sessions worked on side by side (SpecSessions) ----
    fs,              \* the files under the cerebrum: path -> content
    sess,            \* per session: position, chunk in work, context of its worker
    addressed,       \* history: the session the last step was addressed to
    \* ---- a worker and a retry run on one session at once (SpecRace) ----
    race_doc,        \* manifest.json of the session
    race_pc,         \* per process: its position
    race_k,          \* per process: the chunk it works on
    race_call,       \* per process: the update_chunk_status call in progress
    race_snap,       \* per process: the manifest as the call in progress loaded it
    race_failed,     \* the list get_failed_chunks returned to the retry run
    race_lost,       \* history: updates of returned calls that a later write undid
    \* ---- one call of AnalysisResult.to_context_summary (SpecContext) ----
    ctx_result,      \* the result of the chunk just analysed
    ctx_text,        \* the context summary computed from it (lines)
    ctx_pc,          \* "idle" | "ready" | "done"
    \* ---- _chunk_natural_boundaries, step by step (SpecSelect) ----
    sel_boundaries,  \* boundaries: position -> reason
    sel_pos,         \* _select_split_points: current_pos, the cursor
    sel_points,      \* _select_split_points: split_points, the list built so far
    sel_pc           \* "idle" | "loop" | "selected" | "done"

chunkVars == <<text, strategy, target_size, min_size, chunks, chunk_pc>>

diskVars == <<status_file, status_writes, manifest_file, parsed_files,
              merged_file, lockfile>>

workerVars == <<wpc, total, chunk_num, chunk_results, llm_analysis,
                accumulated_context>>

retryVars == <<rpc, failed_chunks, ridx, wait_time, success_count, retry_input>>

histVars == <<pass_result, calls, retries>>

storeVars == <<json_file, store_pc, store_old, store_new, store_returned, store_read>>

\* the variables of the worker and retry processes
pipelineVars == <<diskVars, workerVars, retryVars, histVars>>

mergeVars == <<workspaces, archive, shared_guidance, shared_memory, merge_pc,
               merge_completed, merge_idx, merge_clock, merge_clean>>

mergerVars == <<merger_results, merger_merged, merger_pc>>

splitVars == <<split_boundaries, split_spans, split_pc>>

sessVars == <<fs, sess, addressed>>

raceVars == <<race_doc, race_pc, race_k, race_call, race_snap, race_failed,
              race_lost>>

ctxVars == <<ctx_result, ctx_text, ctx_pc>>

selVars == <<sel_boundaries, sel_pos, sel_points, sel_pc>>

\* the variables each specification leaves alone
offChunker == <<pipelineVars, storeVars, mergeVars, mergerVars, splitVars, sessVars, raceVars, ctxVars, selVars>>

offPipeline == <<chunkVars, storeVars, mergeVars, mergerVars, splitVars, sessVars, raceVars, ctxVars, selVars>>

offStore == <<chunkVars, pipelineVars, mergeVars, mergerVars, splitVars, sessVars, raceVars, ctxVars, selVars>>

offMerge == <<chunkVars, pipelineVars, storeVars, mergerVars, splitVars, sessVars, raceVars, ctxVars, selVars>>

offMerger == <<chunkVars, pipelineVars, storeVars, mergeVars, splitVars, sessVars, raceVars, ctxVars, selVars>>

offSplit == <<chunkVars, pipelineVars, storeVars, mergeVars, mergerVars, sessVars, raceVars, ctxVars, selVars>>

offSess == <<chunkVars, pipelineVars, storeVars, mergeVars, mergerVars, splitVars,
             raceVars, ctxVars, selVars>>

offRace == <<chunkVars, pipelineVars, storeVars, mergeVars, mergerVars, splitVars,
             sessVars, ctxVars, selVars>>

offCtx == <<chunkVars, pipelineVars, storeVars, mergeVars, mergerVars, splitVars,
            sessVars, raceVars, selVars>>

offSelect == <<pipelineVars, storeVars, mergeVars, mergerVars, splitVars,
               sessVars, raceVars, ctxVars>>

vars == <<chunkVars, pipelineVars, storeVars, mergeVars, mergerVars, splitVars, sessVars, raceVars, ctxVars, selVars>>

-----------------------------------------------------------------------------
(* Bounds of the model                                                     *)

MaxLen == 6          \* longest conversation text
MaxTarget == 4       \* largest target_size
MaxMin == 3          \* largest min_size
MaxChunks == 3       \* most chunks the coordinator's chunker returns

-----------------------------------------------------------------------------
(* Small helpers                                                           *)

Min(a, b) == IF a <= b THEN a ELSE b

Abs(x) == IF x < 0 THEN 0 - x ELSE x

Range(s) == {s[i] : i \in DOMAIN s}

SeqsUpTo(S, n) == UNION {[1..k -> S] : k \in 0..n}

RECURSIVE Concat(_)
\* ''.join(parts)
Concat(parts) ==
    IF parts = <<>> THEN <<>> ELSE Head(parts) \o Concat(Tail(parts))

RECURSIVE SortedSeq(_)
\* sorted(S) for a set of integers
SortedSeq(S) ==
    IF S = {} THEN <<>>
    ELSE LET m == CHOOSE x \in S : \A y \in S : x <= y
         IN <<m>> \o SortedSeq(S \ {m})

NL == "\n"

\* Python's None where the other values are positive integers; `if x:` is
\* false for both None and 0.
None == 0

-----------------------------------------------------------------------------
(* conversation_chunker.py                                                 *)

Chunk(t, s, e, i, n, r) ==
    [text |-> t, start_char |-> s, end_char |-> e, chunk_index |-> i,
     total_chunks |-> n, boundary_reason |-> r]

\* _find_boundaries: position -> reason.  Over the modelled alphabet only the
\* last pattern, \n\n+ (paragraph_break), can match: the four literal
\* patterns need letters the alphabet does not have.  finditer is greedy and
\* non-overlapping, so the match ends are the ends of the maximal runs of two
\* or more newlines.
find_boundaries(txt) ==
    LET ends == {e \in 2..Len(txt) :
                    /\ txt[e] = NL
                    /\ txt[e - 1] = NL
                    /\ (e = Len(txt) \/ txt[e + 1] # NL)}
    IN [e \in ends |-> "paragraph_break"]

\* variant: the valid range has no minimum size and includes min_pos
find_nearest_boundary_ZeroMin(boundaries, target, min_pos, max_pos) ==
    LET max_boundary == Min(target + (target_size \div 2), max_pos)
        valid_boundaries ==
            SelectSeq(boundaries, LAMBDA b : min_pos <= b /\ b <= max_boundary)
    IN IF valid_boundaries = <<>> THEN None
       ELSE LET i == CHOOSE i \in DOMAIN valid_boundaries :
                        \A j \in DOMAIN valid_boundaries :
                            \/ Abs(valid_boundaries[i] - target) < Abs(valid_boundaries[j] - target)
                            \/ /\ Abs(valid_boundaries[i] - target) = Abs(valid_boundaries[j] - target)
                               /\ i <= j
            IN valid_boundaries[i]

\* variant: the valid range ends at max_pos, however far from the target
find_nearest_boundary_NoMax(boundaries, target, min_pos, max_pos) ==
    LET min_boundary == min_pos + min_size
        valid_boundaries ==
            SelectSeq(boundaries, LAMBDA b : min_boundary <= b /\ b <= max_pos)
    IN IF valid_boundaries = <<>> THEN None
       ELSE LET i == CHOOSE i \in DOMAIN valid_boundaries :
                        \A j \in DOMAIN valid_boundaries :
                            \/ Abs(valid_boundaries[i] - target) < Abs(valid_boundaries[j] - target)
                            \/ /\ Abs(valid_boundaries[i] - target) = Abs(valid_boundaries[j] - target)
                               /\ i <= j
            IN valid_boundaries[i]

\* variant: the valid range starts at min_pos, without the minimum size
find_nearest_boundary_NoMin(boundaries, target, min_pos, max_pos) ==
    LET max_boundary == Min(target + (target_size \div 2), max_pos)
        valid_boundaries ==
            SelectSeq(boundaries, LAMBDA b : min_pos < b /\ b <= max_boundary)
    IN IF valid_boundaries = <<>> THEN None
       ELSE LET i == CHOOSE i \in DOMAIN valid_boundaries :
                        \A j \in DOMAIN valid_boundaries :
                            \/ Abs(valid_boundaries[i] - target) < Abs(valid_boundaries[j] - target)
                            \/ /\ Abs(valid_boundaries[i] - target) = Abs(valid_boundaries[j] - target)
                               /\ i <= j
            IN valid_boundaries[i]

\* _find_nearest_boundary: min(valid, key=|b - target|) is the first minimal
\* element of the sorted list, None when the list is empty.
find_nearest_boundary(boundaries, target, min_pos, max_pos) ==
    LET min_boundary == min_pos + min_size
        max_boundary == Min(target + (target_size \div 2), max_pos)
        valid_boundaries ==
            SelectSeq(boundaries, LAMBDA b : min_boundary <= b /\ b <= max_boundary)
    IN IF valid_boundaries = <<>> THEN None
       ELSE LET i == CHOOSE i \in DOMAIN valid_boundaries :
                        \A j \in DOMAIN valid_boundaries :
                            \/ Abs(valid_boundaries[i] - target) < Abs(valid_boundaries[j] - target)
                            \/ /\ Abs(valid_boundaries[i] - target) = Abs(valid_boundaries[j] - target)
                               /\ i <= j
            IN valid_boundaries[i]

RECURSIVE select_loop(_, _, _, _)
\* the while loop of _select_split_points
select_loop(sorted_boundaries, text_length, current_pos, split_points) ==
    IF ~(current_pos < text_length) THEN split_points
    ELSE LET target_pos == current_pos + target_size IN
         IF target_pos >= text_length THEN split_points
         ELSE LET best_boundary ==
                      find_nearest_boundary(sorted_boundaries, target_pos,
                                            current_pos, text_length)
              IN IF best_boundary # None
                 THEN select_loop(sorted_boundaries, text_length, best_boundary,
                                  Append(split_points, best_boundary))
                 ELSE select_loop(sorted_boundaries, text_length, target_pos,
                                  Append(split_points, target_pos))

select_split_points(boundaries, text_length) ==
    select_loop(SortedSeq(DOMAIN boundaries), text_length, 0, <<>>)

\* the backfill loops: chunk.total_chunks = len(chunks)
SetTotal(cs) == [i \in DOMAIN cs |-> [cs[i] EXCEPT !.total_chunks = Len(cs)]]

\* the for loop of _chunk_natural_boundaries: one chunk per split point
NaturalSplitChunks(txt, boundaries, split_points) ==
    [i \in DOMAIN split_points |->
        LET start == IF i = 1 THEN 0 ELSE split_points[i - 1]
            end == split_points[i]
        IN Chunk(SubSeq(txt, start + 1, end), start, end, i - 1,
                 Len(split_points),
                 IF end \in DOMAIN boundaries THEN boundaries[end]
                 ELSE "target_size_reached")]

\* variant: the text after the last split point is dropped
NaturalFinalChunk_NoTail(txt, cs, start) == cs

\* "Add final chunk if needed"
NaturalFinalChunk(txt, cs, start) ==
    IF start < Len(txt)
    THEN Append(cs, Chunk(SubSeq(txt, start + 1, Len(txt)), start, Len(txt),
                          Len(cs), Len(cs) + 1, "end_of_conversation"))
    ELSE cs

chunk_natural_boundaries(txt) ==
    LET boundaries == find_boundaries(txt)
        split_points == select_split_points(boundaries, Len(txt))
        start == IF split_points = <<>> THEN 0
                 ELSE split_points[Len(split_points)]
    IN SetTotal(NaturalFinalChunk(txt,
                    NaturalSplitChunks(txt, boundaries, split_points), start))

RECURSIVE fixed_loop(_, _, _)
\* the while loop of _chunk_fixed_size (index = len(chunks))
fixed_loop(txt, start, cs) ==
    IF ~(start < Len(txt)) THEN cs
    ELSE LET end == Min(start + target_size, Len(txt))
         IN fixed_loop(txt, end,
                Append(cs, Chunk(SubSeq(txt, start + 1, end), start, end,
                                 Len(cs), 0, "fixed_size")))

chunk_fixed_size(txt) == SetTotal(fixed_loop(txt, 0, <<>>))

IsSpace(c) == c \in {" ", NL}          \* \s

IsSentenceEnd(c) == c \in {".", "!", "?"}    \* [.!?]

RECURSIVE SpaceRunEnd(_, _)
\* last index of the whitespace run that starts at index i (\s+ is greedy)
SpaceRunEnd(txt, i) ==
    IF i < Len(txt) /\ IsSpace(txt[i + 1]) THEN SpaceRunEnd(txt, i + 1) ELSE i

RECURSIVE re_split(_, _, _)
\* re.split(r'(?<=[.!?])\s+', text): scan from index i with the current piece
\* cur; a match starts at a whitespace character whose predecessor is . ! ?
\* and is dropped from the pieces.
re_split(txt, i, cur) ==
    IF i > Len(txt) THEN <<cur>>
    ELSE IF IsSpace(txt[i]) /\ i > 1 /\ IsSentenceEnd(txt[i - 1])
         THEN <<cur>> \o re_split(txt, SpaceRunEnd(txt, i) + 1, <<>>)
         ELSE re_split(txt, i + 1, Append(cur, txt[i]))

RECURSIVE join_space(_)
\* ' '.join(parts)
join_space(parts) ==
    IF parts = <<>> THEN <<>>
    ELSE IF Len(parts) = 1 THEN parts[1]
    ELSE parts[1] \o <<" ">> \o join_space(Tail(parts))

RECURSIVE sentences_loop(_, _, _, _, _)
\* the for loop of _chunk_sentences followed by "Add final chunk"
sentences_loop(sentences, cs, current_chunk, current_size, start_pos) ==
    IF sentences = <<>>
    THEN IF current_chunk # <<>>
         THEN LET chunk_text == join_space(current_chunk)
              IN Append(cs, Chunk(chunk_text, start_pos,
                                  start_pos + Len(chunk_text), Len(cs), 0,
                                  "end_of_conversation"))
         ELSE cs
    ELSE LET sentence == Head(sentences)
             sentence_size == Len(sentence)
         IN IF current_size + sentence_size > target_size /\ current_size >= min_size
            THEN LET chunk_text == join_space(current_chunk)
                 IN sentences_loop(Tail(sentences),
                        Append(cs, Chunk(chunk_text, start_pos,
                                         start_pos + Len(chunk_text), Len(cs), 0,
                                         "sentence_boundary")),
                        <<sentence>>, sentence_size,
                        start_pos + Len(chunk_text) + 1)
            ELSE sentences_loop(Tail(sentences), cs,
                                Append(current_chunk, sentence),
                                current_size + sentence_size, start_pos)

chunk_sentences(txt) ==
    SetTotal(sentences_loop(re_split(txt, 1, <<>>), <<>>, <<>>, 0, 0))

Strategies == {"natural", "fixed", "sentences", "semantic"}

\* variant: a text of exactly target_size characters is chunked too
chunk_Strict(txt, strat) ==
    IF Len(txt) < target_size
    THEN [raised |-> FALSE,
          chunks |-> <<Chunk(txt, 0, Len(txt), 0, 1, "no_chunking_needed")>>]
    ELSE IF strat = "natural"
         THEN [raised |-> FALSE, chunks |-> chunk_natural_boundaries(txt)]
    ELSE IF strat = "fixed"
         THEN [raised |-> FALSE, chunks |-> chunk_fixed_size(txt)]
    ELSE IF strat = "sentences"
         THEN [raised |-> FALSE, chunks |-> chunk_sentences(txt)]
    ELSE [raised |-> TRUE, chunks |-> <<>>]

\* ConversationChunker.chunk: [raised, chunks]; raised is the ValueError.
chunk(txt, strat) ==
    IF Len(txt) <= target_size
    THEN [raised |-> FALSE,
          chunks |-> <<Chunk(txt, 0, Len(txt), 0, 1, "no_chunking_needed")>>]
    ELSE IF strat = "natural"
         THEN [raised |-> FALSE, chunks |-> chunk_natural_boundaries(txt)]
    ELSE IF strat = "fixed"
         THEN [raised |-> FALSE, chunks |-> chunk_fixed_size(txt)]
    ELSE IF strat = "sentences"
         THEN [raised |-> FALSE, chunks |-> chunk_sentences(txt)]
    ELSE [raised |-> TRUE, chunks |-> <<>>]

-----------------------------------------------------------------------------
(* Python values                                                           *)

\* a file that does not exist
Absent == [absent |-> TRUE]

\* datetime.now().isoformat(): the model keeps no clock
Now == "now"

\* d.get(key, default)
Get(d, key, default) == IF key \in DOMAIN d THEN d[key] ELSE default

\* dict(d); d.update(u)
Update(d, u) == u @@ d

UpperLetters == <<"A", "B", "C", "D", "E", "F", "G", "H", "I", "J", "K", "L", "M",
                  "N", "O", "P", "Q", "R", "S", "T", "U", "V", "W", "X", "Y", "Z">>

LowerLetters == <<"a", "b", "c", "d", "e", "f", "g", "h", "i", "j", "k", "l", "m",
                  "n", "o", "p", "q", "r", "s", "t", "u", "v", "w", "x", "y", "z">>

\* str.lower()
Lower(str) ==
    [i \in DOMAIN str |->
        IF \E k \in DOMAIN UpperLetters : UpperLetters[k] = str[i]
        THEN LowerLetters[CHOOSE k \in DOMAIN UpperLetters : UpperLetters[k] = str[i]]
        ELSE str[i]]

IsBlank(c) == c \in {" ", NL, "\t"}

RECURSIVE LStrip(_)
LStrip(str) ==
    IF str # <<>> /\ IsBlank(Head(str)) THEN LStrip(Tail(str)) ELSE str

RECURSIVE RStrip(_)
RStrip(str) ==
    IF str # <<>> /\ IsBlank(str[Len(str)])
    THEN RStrip(SubSeq(str, 1, Len(str) - 1)) ELSE str

\* str.strip()
Strip(str) == RStrip(LStrip(str))

Digits == <<"0", "1", "2", "3", "4", "5", "6", "7", "8", "9">>

RECURSIVE Str(_)
\* str(n) for n >= 0
Str(n) == IF n < 10 THEN <<Digits[n + 1]>>
          ELSE Str(n \div 10) \o <<Digits[(n % 10) + 1]>>

-----------------------------------------------------------------------------
(* conversation_analyzer.py: AnalysisResult                                *)

\* summary: Optional[str] = None
NoSummary == <<"None">>

AnalysisResult(p, d, t, pr, l, s) ==
    [patterns |-> p, decisions |-> d, todos |-> t, preferences |-> pr,
     learnings |-> l, summary |-> s]

\* AnalysisResult()
EmptyResult == AnalysisResult(<<>>, <<>>, <<>>, <<>>, <<>>, NoSummary)

\* `if result.summary:` (None and '' are false)
HasSummary(r) == r.summary # NoSummary /\ r.summary # <<>>

-----------------------------------------------------------------------------
(* conversation_analyzer.py: AnalysisResult.to_context_summary             *)

\* variant: items[:4]
Top3_Four(items) == SubSeq(items, 1, Min(4, Len(items)))

\* items[:3]
Top3(items) == SubSeq(items, 1, Min(3, Len(items)))

\* one section of the summary: a heading, "- item" per item, a blank line;
\* nothing for an empty list
context_section(heading, items) ==
    IF items = <<>> THEN <<>>
    ELSE <<(<<heading>>)>>
         \o [i \in 1..Len(Top3(items)) |-> <<"- ">> \o Top3(items)[i]]
         \o <<(<<>>)>>

\* to_context_summary(): the lines joined by newlines; a line is the tuple
\* of its parts.  The text is never empty: the heading is always there.
to_context_summary(r) ==
    <<(<<"## Previous Context">>), <<>>>>
    \o (IF HasSummary(r) THEN <<(<<"**Summary**: ">> \o r.summary), <<>>>> ELSE <<>>)
    \o context_section("**Key Decisions:**", r.decisions)
    \o context_section("**Observed Patterns:**", r.patterns)
    \o context_section("**Pending Items:**", r.todos)

\* the text of chunk number k of the conversation in work
chunk_text(k) == <<"chunk", k>>

\* _analyze_with_chunking 209-214: the analyzer input of a chunk: the context,
\* the delimiter "\n\n---\n\n" and the chunk's text, or the text alone when
\* the context is the empty string
chunk_text_with_context(context, own_text) ==
    IF context # <<>> THEN [context |-> context, delimiter |-> "\n\n---\n\n",
                            text |-> own_text]
    ELSE [text |-> own_text]

-----------------------------------------------------------------------------
(* subconscious_worker.py: _merge_chunk_results                            *)

SummaryLimit == 500

SummaryKeep == 497

RECURSIVE dedupe_loop(_, _, _)
dedupe_loop(items, seen, result) ==
    IF items = <<>> THEN result
    ELSE LET item == Head(items)
             normalized == Strip(Lower(item))
         IN IF normalized \notin seen
            THEN dedupe_loop(Tail(items), seen \cup {normalized}, Append(result, item))
            ELSE dedupe_loop(Tail(items), seen, result)

\* variant: items are compared as they are written
RECURSIVE dedupe_list_Exact(_)
dedupe_list_Exact(items) ==
    IF items = <<>> THEN <<>>
    ELSE LET rest == dedupe_list_Exact(SubSeq(items, 1, Len(items) - 1))
             item == items[Len(items)]
         IN  IF \E i \in 1..Len(rest) : rest[i] = item THEN rest
             ELSE Append(rest, item)

dedupe_list(items) == dedupe_loop(items, {}, <<>>)

RECURSIVE Extend(_, _)
\* all_<field>.extend(result.<field>) over the results in order
Extend(results, field) ==
    IF results = <<>> THEN <<>>
    ELSE Head(results)[field] \o Extend(Tail(results), field)

\* f"**Chunk {chunk_num}**: {summary_text}"
SummaryLabel(chunk_no, result) ==
    LET stripped == Strip(result.summary)
        summary_text == IF Len(stripped) > SummaryLimit
                        THEN SubSeq(stripped, 1, SummaryKeep) \o <<".", ".", ".">>
                        ELSE stripped
    IN <<"*", "*", "C", "h", "u", "n", "k", " ">> \o Str(chunk_no)
           \o <<"*", "*", ":", " ">> \o summary_text

RECURSIVE summaries_loop_ByCount(_, _, _)
\* variant: a label counts the summaries, not the results
summaries_loop_ByCount(results, i, n) ==
    IF i > Len(results) THEN <<>>
    ELSE IF HasSummary(results[i])
         THEN <<SummaryLabel(n, results[i])>>
                 \o summaries_loop_ByCount(results, i + 1, n + 1)
         ELSE summaries_loop_ByCount(results, i + 1, n)

summaries_loop_Counted(results, i) == summaries_loop_ByCount(results, i, 1)

RECURSIVE summaries_loop(_, _)
\* the summaries list: one labelled entry per result that has a summary
summaries_loop(results, i) ==
    IF i > Len(results) THEN <<>>
    ELSE (IF HasSummary(results[i]) THEN <<SummaryLabel(i, results[i])>> ELSE <<>>)
            \o summaries_loop(results, i + 1)

RECURSIVE join_blank(_)
\* "\n\n".join(summaries)
join_blank(parts) ==
    IF parts = <<>> THEN <<>>
    ELSE IF Len(parts) = 1 THEN parts[1]
    ELSE parts[1] \o <<NL, NL>> \o join_blank(Tail(parts))

\* variant: a single result goes through the merge like any other
merge_chunk_results_NoShortcut(results) ==
    IF results = <<>> THEN EmptyResult
    ELSE LET summaries == summaries_loop(results, 1)
         IN AnalysisResult(dedupe_list(Extend(results, "patterns")),
                           dedupe_list(Extend(results, "decisions")),
                           dedupe_list(Extend(results, "todos")),
                           dedupe_list(Extend(results, "preferences")),
                           dedupe_list(Extend(results, "learnings")),
                           IF summaries # <<>> THEN join_blank(summaries)
                           ELSE NoSummary)

merge_chunk_results(results) ==
    IF results = <<>> THEN EmptyResult
    ELSE IF Len(results) = 1 THEN results[1]
    ELSE LET summaries == summaries_loop(results, 1)
         IN AnalysisResult(dedupe_list(Extend(results, "patterns")),
                           dedupe_list(Extend(results, "decisions")),
                           dedupe_list(Extend(results, "todos")),
                           dedupe_list(Extend(results, "preferences")),
                           dedupe_list(Extend(results, "learnings")),
                           IF summaries # <<>> THEN join_blank(summaries)
                           ELSE NoSummary)

-----------------------------------------------------------------------------
(* session_workspace.py: SessionWorkspace                                  *)

\* update_status: the document written to status.json
update_status(session_id, status, metadata) ==
    Update([status |-> status, updated_at |-> Now, session_id |-> session_id],
           metadata)

\* create(): the initial status document
create(session_id) ==
    update_status(session_id, "processing",
                  [created_at |-> Now, session_id |-> session_id])

\* mark_complete(metadata)
mark_complete(session_id, metadata) ==
    update_status(session_id, "complete",
                  Update([completed_at |-> Now], metadata))

\* mark_failed(error)
mark_failed(session_id, error) ==
    update_status(session_id, "failed", [error |-> error, failed_at |-> Now])

\* get_status()
get_status(session_id, file) ==
    IF file = Absent THEN [status |-> "unknown", session_id |-> session_id]
    ELSE file

\* variant: range(1, total_chunks) leaves the last chunk without an entry
init_chunk_manifest_ShortRange(session_id, total_chunks) ==
    [session_id |-> session_id, total_chunks |-> total_chunks, created_at |-> Now,
     chunks |-> [i \in 1..(total_chunks - 1) |->
                    [status |-> "pending", attempts |-> 0, created_at |-> Now]]]

\* init_chunk_manifest(total_chunks): the document written to manifest.json.
\* JSON object keys are the decimal strings of the chunk numbers; the model
\* keys the chunks by the numbers themselves.
init_chunk_manifest(session_id, total_chunks) ==
    [session_id |-> session_id, total_chunks |-> total_chunks, created_at |-> Now,
     chunks |-> [i \in 1..total_chunks |->
                    [status |-> "pending", attempts |-> 0, created_at |-> Now]]]

\* variant: the entry is replaced by the new fields instead of being updated
update_chunk_status_Replace(file, chunk_no, status, metadata) ==
    IF file = Absent THEN file
    ELSE [file EXCEPT !.chunks =
             (chunk_no :> Update([status |-> status, updated_at |-> Now], metadata))
             @@ file.chunks]

\* update_chunk_status(chunk_num, status, metadata): the new manifest.json
update_chunk_status(file, chunk_no, status, metadata) ==
    IF file = Absent THEN file
    ELSE LET old == IF chunk_no \in DOMAIN file.chunks THEN file.chunks[chunk_no]
                    ELSE [attempts |-> 0]
             new == Update(Update(old, [status |-> status, updated_at |-> Now]),
                           metadata)
         IN [file EXCEPT !.chunks = (chunk_no :> new) @@ file.chunks]

\* get_chunk_manifest()
get_chunk_manifest(file) ==
    IF file = Absent THEN [chunks |-> <<>>] ELSE file

-----------------------------------------------------------------------------
(* chunk_retry.py                                                          *)

MaxAttempts == 3

BackoffCap == 60

\* variant: a chunk with attempts = MaxAttempts is still returned
get_failed_chunks_Inclusive(file) ==
    LET manifest == get_chunk_manifest(file)
        failed == {k \in DOMAIN manifest.chunks :
                      /\ manifest.chunks[k].status = "failed"
                      /\ Get(manifest.chunks[k], "attempts", 0) <= MaxAttempts}
        order == SortedSeq(failed)
    IN [i \in DOMAIN order |-> <<order[i], manifest.chunks[order[i]]>>]

\* variant: every failed chunk is returned, whatever its attempts
get_failed_chunks_NoCap(file) ==
    LET manifest == get_chunk_manifest(file)
        failed == {k \in DOMAIN manifest.chunks :
                      manifest.chunks[k].status = "failed"}
        order == SortedSeq(failed)
    IN [i \in DOMAIN order |-> <<order[i], manifest.chunks[order[i]]>>]

\* variant: every entry under the cap is returned, whatever its status
get_failed_chunks_AnyStatus(file) ==
    LET manifest == get_chunk_manifest(file)
        failed == {k \in DOMAIN manifest.chunks :
                      Get(manifest.chunks[k], "attempts", 0) < MaxAttempts}
        order == SortedSeq(failed)
    IN [i \in DOMAIN order |-> <<order[i], manifest.chunks[order[i]]>>]

\* variant: every entry that is not complete is returned
get_failed_chunks_Unfinished(file) ==
    LET manifest == get_chunk_manifest(file)
        failed == {k \in DOMAIN manifest.chunks :
                      /\ manifest.chunks[k].status # "complete"
                      /\ Get(manifest.chunks[k], "attempts", 0) < MaxAttempts}
        order == SortedSeq(failed)
    IN [i \in DOMAIN order |-> <<order[i], manifest.chunks[order[i]]>>]

\* get_failed_chunks: (chunk_num, chunk_data) of the failed chunks under the
\* attempt cap, sorted by chunk number
get_failed_chunks(file) ==
    LET manifest == get_chunk_manifest(file)
        failed == {k \in DOMAIN manifest.chunks :
                      /\ manifest.chunks[k].status = "failed"
                      /\ Get(manifest.chunks[k], "attempts", 0) < MaxAttempts}
        order == SortedSeq(failed)
    IN [i \in DOMAIN order |-> <<order[i], manifest.chunks[order[i]]>>]

\* variant: the exponent is the recorded attempts count
backoff_RecordedAttempts(chunk_data) ==
    LET attempts == Get(chunk_data, "attempts", 0)
    IN IF attempts > 0 THEN Min(2 ^ attempts, BackoffCap) ELSE 0

\* retry_session lines 165-172: the sleep before a retry, 0 when none
backoff(chunk_data) ==
    LET attempt == Get(chunk_data, "attempts", 0) + 1
    IN IF attempt > 1 THEN Min(2 ^ attempt, BackoffCap) ELSE 0

-----------------------------------------------------------------------------
(* SpecChunk: chunk() applied to every bounded input                       *)

\* The characters a text is drawn from.  The natural and fixed strategies
\* tell a newline from any other character; the sentence strategy tells
\* sentence ends and whitespace from other characters.
Alphabet(strat) ==
    IF strat = "sentences" THEN {"a", ".", " "} ELSE {"a", NL}

ChunkInputs ==
    /\ strategy \in Strategies
    /\ text \in SeqsUpTo(Alphabet(strategy), MaxLen)
    /\ target_size \in 1..MaxTarget
    /\ min_size \in 1..MaxMin
    /\ chunks = <<>>
    /\ chunk_pc = "input"

DoChunk ==
    /\ chunk_pc = "input"
    /\ LET r == chunk(text, strategy)
       IN /\ chunks' = r.chunks
          /\ chunk_pc' = IF r.raised THEN "raised" ELSE "returned"
    /\ UNCHANGED <<text, strategy, target_size, min_size>>
    /\ UNCHANGED offChunker

-----------------------------------------------------------------------------
(* The session and the analyzer collaborator                               *)

SessionId == "20260205_120000"

UseX == <<"U", "s", "e", " ", "X">>

UseXLower == <<"u", "s", "e", " ", "x", " ">>

UseY == <<"U", "s", "e", " ", "Y">>

ResultA ==
    AnalysisResult(<<UseX>>, <<UseY>>, <<>>, <<>>, <<>>, <<"o", "k">>)

ResultB ==
    AnalysisResult(<<UseXLower, UseY>>, <<>>, <<UseX>>, <<>>, <<>>, NoSummary)

\* analyzer.analyze(chunk_file) either returns one of these or raises: the
\* language-model invocation is an external collaborator.
AnalyzerResults == {ResultA, ResultB}

\* llm_analysis is None
NoAnalysis == [none |-> TRUE]

Chunks == 1..MaxChunks

PipelineIdle ==
    /\ status_file = Absent
    /\ status_writes = 0
    /\ manifest_file = Absent
    /\ parsed_files = <<>>
    /\ merged_file = Absent
    /\ lockfile = FALSE
    /\ wpc = "start"
    /\ total = 0
    /\ chunk_num = 0
    /\ chunk_results = <<>>
    /\ llm_analysis = NoAnalysis
    /\ accumulated_context = <<>>
    /\ rpc = "idle"
    /\ failed_chunks = <<>>
    /\ ridx = 0
    /\ wait_time = 0
    /\ success_count = 0
    /\ retry_input = None
    /\ pass_result = [k \in Chunks |-> [outcome |-> "none"]]
    /\ calls = [k \in Chunks |-> 0]
    /\ retries = [k \in Chunks |-> 0]

ChunkerIdle ==
    /\ text = <<>>
    /\ strategy = "natural"
    /\ target_size = 1
    /\ min_size = 1
    /\ chunks = <<>>
    /\ chunk_pc = "idle"

-----------------------------------------------------------------------------
(* subconscious_worker.py: main                                            *)

\* main 692-698: workspace.create()
WorkerCreate ==
    /\ wpc = "start"
    /\ status_file' = create(SessionId)
    /\ status_writes' = status_writes + 1
    /\ wpc' = "created"
    /\ UNCHANGED <<manifest_file, parsed_files, merged_file, lockfile>>
    /\ UNCHANGED <<total, chunk_num, chunk_results, llm_analysis, accumulated_context>>
    /\ UNCHANGED <<offPipeline, retryVars, histVars>>

\* main 706-712: lockfile.touch()
WorkerLock ==
    /\ wpc = "created"
    /\ lockfile' = TRUE
    /\ wpc' = "locked"
    /\ UNCHANGED <<status_file, status_writes, manifest_file, parsed_files, merged_file>>
    /\ UNCHANGED <<total, chunk_num, chunk_results, llm_analysis, accumulated_context>>
    /\ UNCHANGED <<offPipeline, retryVars, histVars>>

\* variant: the exit for a missing transcript leaves the process at once
WorkerNoTranscript_NoFinally ==
    /\ wpc = "locked"
    /\ status_file' = mark_failed(SessionId, "Transcript file not found")
    /\ status_writes' = status_writes + 1
    /\ wpc' = "exited"
    /\ UNCHANGED <<manifest_file, parsed_files, merged_file, lockfile>>
    /\ UNCHANGED <<total, chunk_num, chunk_results, llm_analysis, accumulated_context>>
    /\ UNCHANGED <<offPipeline, retryVars, histVars>>

\* main 715-719: the transcript is missing: mark_failed, sys.exit(1)
WorkerNoTranscript ==
    /\ wpc = "locked"
    /\ status_file' = mark_failed(SessionId, "Transcript file not found")
    /\ status_writes' = status_writes + 1
    /\ wpc' = "finally"
    /\ UNCHANGED <<manifest_file, parsed_files, merged_file, lockfile>>
    /\ UNCHANGED <<total, chunk_num, chunk_results, llm_analysis, accumulated_context>>
    /\ UNCHANGED <<offPipeline, retryVars, histVars>>

\* main 721-744 and process_transcript_llm 365-398: load and parse, then
\* either no LLM analysis (no terminal recording, no analyzer, no prompt), a
\* single pass (text of at most CHUNK_THRESHOLD characters) or the chunked
\* coordinator.
WorkerLoad ==
    /\ wpc = "locked"
    /\ wpc' \in {"post", "single", "chunking"}
    /\ UNCHANGED <<diskVars, total, chunk_num, chunk_results, llm_analysis, accumulated_context>>
    /\ UNCHANGED <<offPipeline, retryVars, histVars>>

\* process_transcript_llm 409-435: the single pass succeeds
SingleOk ==
    /\ wpc = "single"
    /\ \E result \in AnalyzerResults : llm_analysis' = result
    /\ wpc' = "post"
    /\ UNCHANGED <<diskVars, total, chunk_num, chunk_results, accumulated_context>>
    /\ UNCHANGED <<offPipeline, retryVars, histVars>>

\* process_transcript_llm 437-441: the analyzer raised: log, return None
SingleFail ==
    /\ wpc = "single"
    /\ llm_analysis' = NoAnalysis
    /\ wpc' = "post"
    /\ UNCHANGED <<diskVars, total, chunk_num, chunk_results, accumulated_context>>
    /\ UNCHANGED <<offPipeline, retryVars, histVars>>

\* _analyze_with_chunking 181-189: chunk the text, init_chunk_manifest.  The
\* text is longer than the target, so the chunker returns one chunk or more.
CoordInit ==
    /\ wpc = "chunking"
    /\ \E n \in 1..MaxChunks :
          /\ total' = n
          /\ manifest_file' = init_chunk_manifest(SessionId, n)
    /\ wpc' = "construct"
    /\ UNCHANGED <<status_file, status_writes, parsed_files, merged_file, lockfile>>
    /\ UNCHANGED <<chunk_num, chunk_results, llm_analysis, accumulated_context>>
    /\ UNCHANGED <<offPipeline, retryVars, histVars>>

\* _analyze_with_chunking 191-196: create_analyzer(prompt_path, output_dir)
\* returned an analyzer; the loop starts with an empty result list
CoordAnalyzer ==
    /\ wpc = "construct"
    /\ chunk_num' = 1
    /\ chunk_results' = <<>>
    /\ accumulated_context' = <<>>
    /\ wpc' = "loop"
    /\ UNCHANGED <<diskVars, total, llm_analysis>>
    /\ UNCHANGED <<offPipeline, retryVars, histVars>>

\* _analyze_with_chunking 192 and process_transcript_llm 437-441: the call
\* create_analyzer(prompt_path, output_dir=analyses_dir) raised.  It stands
\* outside the per-chunk try, so the exception leaves the coordinator and
\* process_transcript_llm returns None.  claude_analyzer.create_analyzer
\* (claude_analyzer.py 103) has no output_dir parameter: with that module
\* the call raises TypeError every time.
CoordAbort ==
    /\ wpc = "construct"
    /\ llm_analysis' = NoAnalysis
    /\ wpc' = "post"
    /\ UNCHANGED <<diskVars, total, chunk_num, chunk_results, accumulated_context>>
    /\ UNCHANGED <<offPipeline, retryVars, histVars>>

\* _analyze_with_chunking 198-220: mark the chunk processing, write its input
\* file, call the analyzer
CoordBegin ==
    /\ wpc = "loop"
    /\ chunk_num <= total
    /\ manifest_file' = update_chunk_status(manifest_file, chunk_num, "processing",
                                            [started_at |-> Now])
    /\ parsed_files' = (chunk_num :> chunk_text_with_context(accumulated_context,
                                                               chunk_text(chunk_num)))
                        @@ parsed_files
    /\ calls' = [calls EXCEPT ![chunk_num] = @ + 1]
    /\ wpc' = "analyze"
    /\ UNCHANGED <<status_file, status_writes, merged_file, lockfile>>
    /\ UNCHANGED <<total, chunk_num, chunk_results, llm_analysis, accumulated_context>>
    /\ UNCHANGED <<offPipeline, retryVars, pass_result, retries>>

\* variant: the result is kept but the manifest entry is left processing
CoordOk_Unmarked ==
    /\ wpc = "analyze"
    /\ \E result \in AnalyzerResults :
          /\ chunk_results' = Append(chunk_results, result)
          /\ pass_result' = [pass_result EXCEPT ![chunk_num] =
                                [outcome |-> "ok", result |-> result]]
          /\ accumulated_context' = IF chunk_num < total
                                    THEN to_context_summary(result)
                                    ELSE accumulated_context
    /\ chunk_num' = chunk_num + 1
    /\ wpc' = "loop"
    /\ UNCHANGED <<diskVars, total, llm_analysis, offPipeline, retryVars, calls, retries>>

\* _analyze_with_chunking 220-237: the analyzer returned a result
CoordOk ==
    /\ wpc = "analyze"
    /\ \E result \in AnalyzerResults :
          /\ chunk_results' = Append(chunk_results, result)
          /\ manifest_file' =
                update_chunk_status(manifest_file, chunk_num, "complete",
                    [completed_at |-> Now,
                     patterns_count |-> Len(result.patterns),
                     decisions_count |-> Len(result.decisions)])
          /\ pass_result' = [pass_result EXCEPT ![chunk_num] =
                                [outcome |-> "ok", result |-> result]]
          /\ accumulated_context' = IF chunk_num < total
                                    THEN to_context_summary(result)
                                    ELSE accumulated_context
    /\ chunk_num' = chunk_num + 1
    /\ wpc' = "loop"
    /\ UNCHANGED <<status_file, status_writes, parsed_files, merged_file, lockfile>>
    /\ UNCHANGED <<total, llm_analysis, offPipeline, retryVars, calls, retries>>

\* variant: the exception leaves the loop: the entry is marked failed and the
\* coordinator gives up on the remaining chunks
CoordFail_Abort ==
    /\ wpc = "analyze"
    /\ manifest_file' =
          update_chunk_status(manifest_file, chunk_num, "failed",
              [failed_at |-> Now, error |-> "analysis failed",
               attempts |-> Get(get_chunk_manifest(manifest_file).chunks[chunk_num],
                                "attempts", 0) + 1])
    /\ pass_result' = [pass_result EXCEPT ![chunk_num] = [outcome |-> "fail"]]
    /\ llm_analysis' = NoAnalysis
    /\ wpc' = "post"
    /\ UNCHANGED <<status_file, status_writes, parsed_files, merged_file, lockfile>>
    /\ UNCHANGED <<total, chunk_num, chunk_results, accumulated_context>>
    /\ UNCHANGED <<offPipeline, retryVars, calls, retries>>

\* _analyze_with_chunking 239-251: the analyzer raised: mark the chunk failed
\* and continue with the next chunk
CoordFail ==
    /\ wpc = "analyze"
    /\ manifest_file' =
          update_chunk_status(manifest_file, chunk_num, "failed",
              [failed_at |-> Now, error |-> "analysis failed",
               attempts |-> Get(get_chunk_manifest(manifest_file).chunks[chunk_num],
                                "attempts", 0) + 1])
    /\ pass_result' = [pass_result EXCEPT ![chunk_num] = [outcome |-> "fail"]]
    /\ chunk_num' = chunk_num + 1
    /\ wpc' = "loop"
    /\ UNCHANGED <<status_file, status_writes, parsed_files, merged_file, lockfile>>
    /\ UNCHANGED <<total, chunk_results, llm_analysis, accumulated_context>>
    /\ UNCHANGED <<offPipeline, retryVars, calls, retries>>

\* _analyze_with_chunking 253-277 and process_transcript_llm 424-435: merge
\* the successful results, persist the merged analysis, return it
CoordMerge ==
    /\ wpc = "loop"
    /\ chunk_num > total
    /\ LET merged_result == merge_chunk_results(chunk_results)
       IN /\ merged_file' = merged_result
          /\ llm_analysis' = merged_result
    /\ wpc' = "post"
    /\ UNCHANGED <<status_file, status_writes, manifest_file, parsed_files, lockfile>>
    /\ UNCHANGED <<total, chunk_num, chunk_results, accumulated_context>>
    /\ UNCHANGED <<offPipeline, retryVars, histVars>>

\* main 750-806: memory and guidance generation, transcript archival, then
\* mark_complete with the counts
WorkerComplete ==
    /\ wpc = "post"
    /\ status_file' =
          mark_complete(SessionId,
              [patterns_count |-> IF llm_analysis # NoAnalysis
                                  THEN Len(llm_analysis.patterns) ELSE 0,
               decisions_count |-> IF llm_analysis # NoAnalysis
                                   THEN Len(llm_analysis.decisions) ELSE 0])
    /\ status_writes' = status_writes + 1
    /\ wpc' = "finally"
    /\ UNCHANGED <<manifest_file, parsed_files, merged_file, lockfile>>
    /\ UNCHANGED <<total, chunk_num, chunk_results, llm_analysis, accumulated_context>>
    /\ UNCHANGED <<offPipeline, retryVars, histVars>>

\* main 808-814: an exception outside process_transcript_llm (loading the
\* transcript, writing guidance, moving the transcript): mark_failed
WorkerError ==
    /\ wpc \in {"locked", "post"}
    /\ status_file' = mark_failed(SessionId, "error")
    /\ status_writes' = status_writes + 1
    /\ wpc' = "finally"
    /\ UNCHANGED <<manifest_file, parsed_files, merged_file, lockfile>>
    /\ UNCHANGED <<total, chunk_num, chunk_results, llm_analysis, accumulated_context>>
    /\ UNCHANGED <<offPipeline, retryVars, histVars>>

\* main 711-816: an exception that `except Exception` does not catch
\* (KeyboardInterrupt on SIGINT, or an error raised by the handler itself)
\* leaves the try block: only the finally clause runs
WorkerInterrupt ==
    /\ wpc \in {"locked", "single", "chunking", "construct", "loop", "analyze", "post"}
    /\ wpc' = "finally"
    /\ UNCHANGED <<diskVars, total, chunk_num, chunk_results, llm_analysis, accumulated_context>>
    /\ UNCHANGED <<offPipeline, retryVars, histVars>>

\* main 816-821: finally: remove the lock, exit
WorkerUnlock ==
    /\ wpc = "finally"
    /\ lockfile' = FALSE
    /\ wpc' = "exited"
    /\ UNCHANGED <<status_file, status_writes, manifest_file, parsed_files, merged_file>>
    /\ UNCHANGED <<total, chunk_num, chunk_results, llm_analysis, accumulated_context>>
    /\ UNCHANGED <<offPipeline, retryVars, histVars>>

\* the worker process dies abruptly (SIGKILL, power loss): nothing runs
WorkerKill ==
    /\ wpc \notin {"start", "exited", "dead"}
    /\ wpc' = "dead"
    /\ UNCHANGED <<diskVars, total, chunk_num, chunk_results, llm_analysis, accumulated_context>>
    /\ UNCHANGED <<offPipeline, retryVars, histVars>>

-----------------------------------------------------------------------------
(* chunk_retry.py: retry_session, run while no worker is running           *)

\* retry_session 136-160: the workspace exists; read the retryable chunks;
\* return at once when there are none
RetryScan ==
    /\ rpc = "idle"
    /\ wpc \in {"exited", "dead"}
    /\ status_file # Absent
    /\ failed_chunks' = get_failed_chunks(manifest_file)
    /\ rpc' = IF failed_chunks' = <<>> THEN "idle" ELSE "loop"
    /\ ridx' = 1
    /\ wait_time' = 0
    /\ success_count' = 0
    /\ retry_input' = None
    /\ UNCHANGED <<offPipeline, diskVars, workerVars, histVars>>

\* variant: the retry writes the chunk's input file anew, from the chunk's
\* text alone
RetryBegin_Regenerate ==
    /\ rpc = "loop"
    /\ ridx <= Len(failed_chunks)
    /\ LET chunk_no == failed_chunks[ridx][1]
           chunk_data == failed_chunks[ridx][2]
       IN /\ wait_time' = backoff(chunk_data)
          /\ IF chunk_no \notin DOMAIN parsed_files
             THEN /\ rpc' = "loop"
                  /\ ridx' = ridx + 1
                  /\ UNCHANGED <<manifest_file, parsed_files, calls, retries, retry_input>>
             ELSE /\ manifest_file' =
                        update_chunk_status(manifest_file, chunk_no, "processing",
                            [started_at |-> Now,
                             attempts |-> Get(chunk_data, "attempts", 0) + 1])
                  /\ calls' = [calls EXCEPT ![chunk_no] = @ + 1]
                  /\ retries' = [retries EXCEPT ![chunk_no] = @ + 1]
                  /\ parsed_files' = (chunk_no :> [text |-> chunk_text(chunk_no)])
                                      @@ parsed_files
                  /\ retry_input' = parsed_files'[chunk_no]
                  /\ rpc' = "analyze"
                  /\ UNCHANGED ridx
    /\ UNCHANGED <<status_file, status_writes, merged_file, lockfile>>
    /\ UNCHANGED <<failed_chunks, success_count, pass_result>>
    /\ UNCHANGED <<offPipeline, workerVars>>

\* retry_session 164-176 and retry_chunk 81-100: sleep, then (the chunk's
\* input file being there) mark the chunk processing with attempts + 1 and
\* call the analyzer
RetryBegin ==
    /\ rpc = "loop"
    /\ ridx <= Len(failed_chunks)
    /\ LET chunk_no == failed_chunks[ridx][1]
           chunk_data == failed_chunks[ridx][2]
       IN /\ wait_time' = backoff(chunk_data)
          /\ IF chunk_no \notin DOMAIN parsed_files
             THEN /\ rpc' = "loop"
                  /\ ridx' = ridx + 1
                  /\ UNCHANGED <<manifest_file, calls, retries, retry_input>>
             ELSE /\ manifest_file' =
                        update_chunk_status(manifest_file, chunk_no, "processing",
                            [started_at |-> Now,
                             attempts |-> Get(chunk_data, "attempts", 0) + 1])
                  /\ calls' = [calls EXCEPT ![chunk_no] = @ + 1]
                  /\ retries' = [retries EXCEPT ![chunk_no] = @ + 1]
                  /\ retry_input' = parsed_files[chunk_no]
                  /\ rpc' = "analyze"
                  /\ UNCHANGED ridx
    /\ UNCHANGED <<status_file, status_writes, parsed_files, merged_file, lockfile>>
    /\ UNCHANGED <<failed_chunks, success_count, pass_result>>
    /\ UNCHANGED <<offPipeline, workerVars>>

\* retry_chunk 100-112: the analyzer returned a result
RetryOk ==
    /\ rpc = "analyze"
    /\ \E result \in AnalyzerResults :
          manifest_file' =
              update_chunk_status(manifest_file, failed_chunks[ridx][1], "complete",
                  [completed_at |-> Now,
                   patterns_count |-> Len(result.patterns),
                   decisions_count |-> Len(result.decisions),
                   retried |-> TRUE])
    /\ success_count' = success_count + 1
    /\ ridx' = ridx + 1
    /\ rpc' = "loop"
    /\ UNCHANGED <<status_file, status_writes, parsed_files, merged_file, lockfile>>
    /\ UNCHANGED <<failed_chunks, wait_time, retry_input>>
    /\ UNCHANGED <<offPipeline, workerVars, histVars>>

\* variant: the attempts are counted from the manifest as it is now, which
\* already holds the increment written when the retry began
RetryFail_Recount ==
    /\ rpc = "analyze"
    /\ manifest_file' =
          update_chunk_status(manifest_file, failed_chunks[ridx][1], "failed",
              [failed_at |-> Now, error |-> "analysis failed",
               attempts |-> Get(get_chunk_manifest(manifest_file).chunks[failed_chunks[ridx][1]],
                                "attempts", 0) + 1])
    /\ ridx' = ridx + 1
    /\ rpc' = "loop"
    /\ UNCHANGED <<status_file, status_writes, parsed_files, merged_file, lockfile>>
    /\ UNCHANGED <<failed_chunks, wait_time, success_count, retry_input>>
    /\ UNCHANGED <<offPipeline, workerVars, histVars>>

\* retry_chunk 114-124: the analyzer raised again
RetryFail ==
    /\ rpc = "analyze"
    /\ manifest_file' =
          update_chunk_status(manifest_file, failed_chunks[ridx][1], "failed",
              [failed_at |-> Now, error |-> "analysis failed",
               attempts |-> Get(failed_chunks[ridx][2], "attempts", 0) + 1])
    /\ ridx' = ridx + 1
    /\ rpc' = "loop"
    /\ UNCHANGED <<status_file, status_writes, parsed_files, merged_file, lockfile>>
    /\ UNCHANGED <<failed_chunks, wait_time, success_count, retry_input>>
    /\ UNCHANGED <<offPipeline, workerVars, histVars>>

\* variant: the run marks the session complete when no chunk is left failed
RetryEnd_AutoComplete ==
    /\ rpc = "loop"
    /\ ridx > Len(failed_chunks)
    /\ rpc' = "idle"
    /\ IF success_count = Len(failed_chunks)
       THEN /\ status_file' = mark_complete(SessionId, [retried |-> TRUE])
            /\ status_writes' = status_writes + 1
       ELSE UNCHANGED <<status_file, status_writes>>
    /\ UNCHANGED <<manifest_file, parsed_files, merged_file, lockfile>>
    /\ UNCHANGED <<failed_chunks, ridx, wait_time, success_count, retry_input>>
    /\ UNCHANGED <<offPipeline, workerVars, histVars>>

\* retry_session 184-204: report; the session status is left alone
RetryEnd ==
    /\ rpc = "loop"
    /\ ridx > Len(failed_chunks)
    /\ rpc' = "idle"
    /\ UNCHANGED <<failed_chunks, ridx, wait_time, success_count, retry_input>>
    /\ UNCHANGED <<offPipeline, diskVars, workerVars, histVars>>

\* the retry process dies abruptly
RetryKill ==
    /\ rpc \in {"loop", "analyze"}
    /\ rpc' = "idle"
    /\ UNCHANGED <<failed_chunks, ridx, wait_time, success_count, retry_input>>
    /\ UNCHANGED <<offPipeline, diskVars, workerVars, histVars>>

-----------------------------------------------------------------------------
(* SpecStore: one JSON document of a workspace, written call after call    *)
(* by a process that can die at any point                                  *)

MaxCalls == 3        \* most state-store calls of one process

\* the file does not exist
NoFile == [exists |-> FALSE, text |-> <<>>]

File(txt) == [exists |-> TRUE, text |-> txt]

RECURSIVE json_items(_, _)
\* the members of a JSON object, one token <<key, value>> each
json_items(data, keys) ==
    IF keys = {} THEN <<>>
    ELSE LET k == CHOOSE k \in keys : TRUE
         IN <<(<<k, data[k]>>)>> \o json_items(data, keys \ {k})

\* json.dump(data, f, indent=2): the text, as tokens: an opening brace, the
\* members, a closing brace
json_dump(data) ==
    <<(<<"{">>)>> \o json_items(data, DOMAIN data) \o <<(<<"}">>)>>

\* json.load raised: the text is not a complete JSON document
JSONDecodeError == [raised |-> "JSONDecodeError"]

\* json.load(f)
json_load(txt) ==
    IF /\ Len(txt) >= 2
       /\ Len(txt[1]) = 1 /\ txt[1][1] = "{"
       /\ Len(txt[Len(txt)]) = 1 /\ txt[Len(txt)][1] = "}"
       /\ \A i \in 2..(Len(txt) - 1) : Len(txt[i]) = 2
    THEN [k \in {txt[i][1] : i \in 2..(Len(txt) - 1)} |->
             txt[CHOOSE i \in 2..(Len(txt) - 1) : txt[i][1] = k][2]]
    ELSE JSONDecodeError

\* get_status / get_chunk_manifest on the file: exists() then json.load
read_document(file) ==
    IF ~file.exists THEN Absent ELSE json_load(file.text)

NoRead == [read |-> FALSE]

StoreIdle ==
    /\ json_file = NoFile
    /\ store_pc = "idle"
    /\ store_old = Absent
    /\ store_new = Absent
    /\ store_returned = <<>>
    /\ store_read = NoRead

\* create(), mark_complete(metadata) or mark_failed(error) is called: the
\* document to write is built (update_status 76-83)
StoreCallStatus ==
    /\ store_pc = "idle"
    /\ Len(store_returned) < MaxCalls
    /\ store_old' = read_document(json_file)
    /\ IF ~json_file.exists
       THEN store_new' = create(SessionId)
       ELSE /\ "chunks" \notin DOMAIN read_document(json_file)
            /\ store_new' \in {mark_complete(SessionId, [test |-> "data"]),
                              mark_failed(SessionId, "Test error")}
    /\ store_pc' = "opening"
    /\ UNCHANGED <<json_file, store_returned, store_read>>
    /\ UNCHANGED offStore

\* init_chunk_manifest(n) or update_chunk_status(k, status, metadata) is
\* called: the document to write is built (103-116; 133-146: the manifest is
\* read, the entry is updated)
StoreCallManifest ==
    /\ store_pc = "idle"
    /\ Len(store_returned) < MaxCalls
    /\ store_old' = read_document(json_file)
    /\ IF ~json_file.exists
       THEN \E n \in 1..MaxChunks : store_new' = init_chunk_manifest(SessionId, n)
       ELSE /\ "chunks" \in DOMAIN read_document(json_file)
            /\ \E k \in DOMAIN read_document(json_file).chunks :
               \E st \in {"processing", "complete", "failed"} :
                  store_new' = update_chunk_status(read_document(json_file), k, st,
                                                   [worker_pid |-> 12345])
    /\ store_pc' = "opening"
    /\ UNCHANGED <<json_file, store_returned, store_read>>
    /\ UNCHANGED offStore

\* open(file, 'w'): the file is created or truncated to length 0
StoreOpen ==
    /\ store_pc = "opening"
    /\ json_file' = File(<<>>)
    /\ store_pc' = "dumping"
    /\ UNCHANGED <<store_old, store_new, store_returned, store_read>>
    /\ UNCHANGED offStore

\* json.dump filled the buffer of the file object: a further part of the
\* text reaches the file
StoreFlush ==
    /\ store_pc = "dumping"
    /\ \E n \in (Len(json_file.text) + 1)..(Len(json_dump(store_new)) - 1) :
          json_file' = File(SubSeq(json_dump(store_new), 1, n))
    /\ UNCHANGED <<store_pc, store_old, store_new, store_returned, store_read>>
    /\ UNCHANGED offStore

\* the with block ends: the rest of the text is written, the file is closed
\* and the call returns
StoreClose ==
    /\ store_pc = "dumping"
    /\ json_file' = File(json_dump(store_new))
    /\ store_returned' = Append(store_returned, store_new)
    /\ store_pc' = "idle"
    /\ UNCHANGED <<store_old, store_new, store_read>>
    /\ UNCHANGED offStore

\* the process dies (SIGKILL): between two calls or within one
StoreKill ==
    /\ store_pc \in {"idle", "opening", "dumping"}
    /\ store_pc' = "dead"
    /\ UNCHANGED <<json_file, store_old, store_new, store_returned, store_read>>
    /\ UNCHANGED offStore

\* a later process reads the document
StoreRead ==
    /\ store_pc = "dead"
    /\ store_read = NoRead
    /\ store_read' = read_document(json_file)
    /\ UNCHANGED <<json_file, store_pc, store_old, store_new, store_returned>>
    /\ UNCHANGED offStore

-----------------------------------------------------------------------------
(* The merge process (merge_sessions.py) over the sessions of a cerebrum.  *)
(* A guidance document is the sequence of its lines; of a line the model   *)
(* keeps what the code asks of it: whether it holds the section marker,    *)
(* whether it is an entry ("- **..."), whether it holds "last_updated: ".  *)

MaxRuns == 2

SessionB == "20260205_130000"

Sessions == {SessionId, SessionB}

Line(kind, txt, at) == [kind |-> kind, text |-> txt, at |-> at]

MarkerLine == Line("marker", "## Recent Sessions", 0)

BlankLine == Line("blank", "", 0)

TextLine(txt) == Line("text", txt, 0)

\* "last_updated: {timestamp}", written at time t
StampLine(t) == Line("stamp", "last_updated: ", t)

\* "- **{date}** ({duration}): ..." of the session session_id
EntryLine(session_id) == Line("entry", session_id, 0)

NoGuidance == [exists |-> FALSE, lines |-> <<>>]

Guidance(lines) == [exists |-> TRUE, lines |-> lines]

\* generate_guidance_basic: the guidance.md the worker writes into a
\* session workspace: front matter, title, marker, one entry, footer
session_guidance(session_id) ==
    Guidance(<<TextLine("---"), StampLine(0), TextLine("---"), BlankLine,
               TextLine("# Subconscious Guidance"), BlankLine,
               TextLine("Quick orientation"), BlankLine,
               MarkerLine, BlankLine,
               EntryLine(session_id), BlankLine,
               TextLine("---"), BlankLine, TextLine("*Guidance is lightweight*"),
               BlankLine>>)

\* the default header of the shared guidance document, split into lines
default_guidance(t) ==
    <<TextLine("---"), StampLine(t), TextLine("---"), BlankLine,
      TextLine("# Subconscious Guidance"), BlankLine,
      TextLine("Quick orientation"), BlankLine,
      MarkerLine, BlankLine, BlankLine>>

\* the loop of lines 63-70: the entry lines after the marker
RECURSIVE entry_loop(_, _, _)
entry_loop(lines, i, in_sessions) ==
    IF i > Len(lines) THEN <<>>
    ELSE IF lines[i].kind = "marker" THEN entry_loop(lines, i + 1, TRUE)
    ELSE IF in_sessions /\ lines[i].kind = "entry"
         THEN <<lines[i]>> \o entry_loop(lines, i + 1, in_sessions)
    ELSE entry_loop(lines, i + 1, in_sessions)

entry_lines(lines) == entry_loop(lines, 1, FALSE)

\* x[1].get('completed_at', ''); the empty string sorts before every time
completed_key(status) ==
    IF "completed_at" \in DOMAIN status THEN status.completed_at ELSE 0

\* insertion of one session into a list sorted by key, after its equals
RECURSIVE insort(_, _, _)
insort(ws, sorted, sid) ==
    IF sorted = <<>> THEN <<sid>>
    ELSE IF completed_key(ws[sid].status) < completed_key(ws[Head(sorted)].status)
         THEN <<sid>> \o sorted
    ELSE <<Head(sorted)>> \o insort(ws, Tail(sorted), sid)

\* sorted(sessions, key=completed_at): Python's sort is stable
RECURSIVE sorted_sessions(_, _)
sorted_sessions(ws, sessions) ==
    IF sessions = <<>> THEN <<>>
    ELSE insort(ws,
                sorted_sessions(ws, SubSeq(sessions, 1, Len(sessions) - 1)),
                sessions[Len(sessions)])

\* the loop of lines 57-73 over the sorted sessions
RECURSIVE session_entries(_, _)
session_entries(ws, sessions) ==
    IF sessions = <<>> THEN <<>>
    ELSE (IF ws[Head(sessions)].guidance.exists
          THEN entry_lines(ws[Head(sessions)].guidance.lines)
          ELSE <<>>)
         \o session_entries(ws, Tail(sessions))

\* lines 79-83: one past the first line holding the marker, or -1
RECURSIVE insert_loop(_, _)
insert_loop(lines, i) ==
    IF i > Len(lines) THEN -1
    ELSE IF lines[i].kind = "marker" THEN i
    ELSE insert_loop(lines, i + 1)

insert_index(lines) == insert_loop(lines, 1)

\* lines 91-94: every "last_updated: " gets the time of the run in front
stamped(lines, t) ==
    [i \in 1..Len(lines) |->
        IF lines[i].kind = "stamp" THEN StampLine(t) ELSE lines[i]]

\* variant: entries are appended at the end of the document
merge_guidance_files_Append(ws, main, sessions, t) ==
    LET main_content == IF main.exists THEN main.lines ELSE default_guidance(t)
        entries == session_entries(ws, sorted_sessions(ws, sessions))
    IN  Guidance(stamped(main_content \o entries, t))

\* merge_guidance_files: the shared guidance document it writes
merge_guidance_files(ws, main, sessions, t) ==
    LET main_content == IF main.exists THEN main.lines ELSE default_guidance(t)
        entries == session_entries(ws, sorted_sessions(ws, sessions))
        at == insert_index(main_content)
        lines == IF entries # <<>> /\ at > 0
                 THEN SubSeq(main_content, 1, at) \o <<BlankLine>> \o entries
                      \o SubSeq(main_content, at + 1, Len(main_content))
                 ELSE main_content
    IN  Guidance(stamped(lines, t))

\* a memory file's content: which session wrote it, under which name
Memory(owner, name) == [owner |-> owner, name |-> name]

\* f"{stem}_{session_id}.md": a file name is the tuple of its parts
Renamed(name, session_id) == Append(name, session_id)

\* variant: the destination is taken as it is, without the conflict check
RECURSIVE move_memories_Overwrite(_, _, _, _)
move_memories_Overwrite(store, session_id, memories, names) ==
    IF names = {} THEN store
    ELSE LET n == CHOOSE m \in names : TRUE
         IN  move_memories_Overwrite((n :> memories[n]) @@ store, session_id,
                                     memories, names \ {n})

\* move_memories: the shared store after the loop over the session's
\* memory files `names` (shutil.copy2 creates or overwrites dest_file)
RECURSIVE move_memories(_, _, _, _)
move_memories(store, session_id, memories, names) ==
    IF names = {} THEN store
    ELSE LET n == CHOOSE m \in names : TRUE
             dest_file == IF n \in DOMAIN store THEN Renamed(n, session_id)
                          ELSE n
         IN  move_memories((dest_file :> memories[n]) @@ store, session_id,
                           memories, names \ {n})

NoWorkspace == [exists |-> FALSE]

Workspace(status, manifest, guidance, memories) ==
    [exists |-> TRUE, status |-> status, manifest |-> manifest,
     guidance |-> guidance, memories |-> memories]

\* variant: failed sessions count as active too
get_active_sessions_Failed(ws, order) ==
    SelectSeq(order, LAMBDA sid :
        get_status(sid, ws[sid].status).status \in {"processing", "complete", "failed"})

\* get_active_sessions: of the workspaces in directory order, those whose
\* status is processing or complete
get_active_sessions(ws, order) ==
    SelectSeq(order, LAMBDA sid :
        get_status(sid, ws[sid].status).status \in {"processing", "complete"})

\* the orders in which iterdir() can list the session directories
DirectoryOrders(ws) ==
    LET present == {sid \in Sessions : ws[sid].exists}
    IN  {o \in UNION {[1..n -> present] : n \in 0..Cardinality(Sessions)} :
            /\ Len(o) = Cardinality(present)
            /\ \A i, j \in 1..Len(o) : i # j => o[i] # o[j]}

\* ---- the states a merge can find ----

MemoryNames == {<<"x">>, <<"y">>}

MemorySets == {{}, {<<"x">>}, {<<"x">>, <<"y">>}}

Memories(session_id, names) == [n \in names |-> Memory(session_id, n)]

\* the status document of a session that completed at time t
CompleteStatus(session_id, t) ==
    [mark_complete(session_id, [patterns_count |-> 0, decisions_count |-> 0])
        EXCEPT !.completed_at = t]

\* the workspaces a session can have left behind
SessionStates(session_id, times) ==
    {Workspace(create(session_id), init_chunk_manifest(session_id, 1),
               session_guidance(session_id), Memories(session_id, {<<"x">>})),
     Workspace(mark_failed(session_id, "Test error"), Absent,
               NoGuidance, Memories(session_id, {})),
     Workspace(Absent, Absent, NoGuidance, Memories(session_id, {<<"x">>}))}
    \cup {Workspace(CompleteStatus(session_id, t), Absent, g,
                    Memories(session_id, names)) :
             t \in times, g \in {NoGuidance, session_guidance(session_id)},
             names \in MemorySets}

\* a shared document of an earlier merge, and one without the marker
PriorGuidance ==
    {NoGuidance,
     Guidance(<<TextLine("---"), StampLine(0), TextLine("---"), BlankLine,
                MarkerLine, BlankLine, EntryLine("20260101_000000"), BlankLine>>),
     Guidance(<<TextLine("---"), StampLine(0), TextLine("---"), BlankLine,
                TextLine("# Notes"), BlankLine>>)}

\* the shared store before the merge: a name is free, or held by an older
\* memory, or by the copy finalize_session_memories made of a complete
\* session's memory of that name
PriorStores(ws) ==
    LET holders(n) == {Memory("cerebrum", n)} \cup
                      {Memory(sid, n) : sid \in
                          {s \in Sessions :
                              /\ ws[s].status # Absent
                              /\ ws[s].status.status = "complete"
                              /\ n \in DOMAIN ws[s].memories}}
    IN  UNION {{st \in [names -> UNION {holders(n) : n \in names}] :
                   \A n \in names : st[n] \in holders(n)} :
               names \in SUBSET MemoryNames}

MergeIdle ==
    /\ workspaces = [sid \in Sessions |-> NoWorkspace]
    /\ archive = [sid \in Sessions |-> NoWorkspace]
    /\ shared_guidance = NoGuidance
    /\ shared_memory = <<>>
    /\ merge_pc = "idle"
    /\ merge_completed = <<>>
    /\ merge_idx = 0
    /\ merge_clock = 0
    /\ merge_clean = FALSE

MergeInputs ==
    /\ workspaces \in {[sid \in Sessions |-> IF sid = SessionId THEN a ELSE b] :
                         a \in SessionStates(SessionId, {1, 2}),
                         b \in SessionStates(SessionB, {1})}
    /\ archive = [sid \in Sessions |-> NoWorkspace]
    /\ shared_guidance \in PriorGuidance
    /\ shared_memory \in PriorStores(workspaces)
    /\ merge_pc = "idle"
    /\ merge_completed = <<>>
    /\ merge_idx = 0
    /\ merge_clock = 0
    /\ merge_clean = FALSE

\* merge_completed_sessions up to line 169: the scan; with no completed
\* session, or with --dry-run, the run is over
MergeStart ==
    /\ merge_pc = "idle"
    /\ merge_clock < MaxRuns
    /\ merge_clock' = merge_clock + 1
    /\ \E order \in DirectoryOrders(workspaces), dry_run \in BOOLEAN :
          LET active_sessions == get_active_sessions(workspaces, order)
              completed == SelectSeq(active_sessions, LAMBDA sid :
                               workspaces[sid].status.status = "complete")
          IN  IF completed = <<>> \/ dry_run
              THEN UNCHANGED <<merge_pc, merge_completed, merge_idx, merge_clean>>
              ELSE /\ merge_pc' = "guidance"
                   /\ merge_completed' = completed
                   /\ merge_idx' = 1
                   /\ merge_clean' = FALSE
    /\ UNCHANGED <<workspaces, archive, shared_guidance, shared_memory>>
    /\ UNCHANGED offMerge

\* line 175: merge_guidance_files(cerebrum_path, completed)
MergeGuidance ==
    /\ merge_pc = "guidance"
    /\ shared_guidance' = merge_guidance_files(workspaces, shared_guidance,
                                               merge_completed, merge_clock)
    /\ merge_pc' = "memories"
    /\ UNCHANGED <<workspaces, archive, shared_memory, merge_completed,
                   merge_idx, merge_clock, merge_clean>>
    /\ UNCHANGED offMerge

\* line 183: move_memories(cerebrum_path, workspace)
MergeMemories ==
    /\ merge_pc = "memories"
    /\ LET sid == merge_completed[merge_idx]
       IN  shared_memory' = move_memories(shared_memory, sid,
                                          workspaces[sid].memories,
                                          DOMAIN workspaces[sid].memories)
    /\ merge_pc' = "archive"
    /\ UNCHANGED <<workspaces, archive, shared_guidance, merge_completed,
                   merge_idx, merge_clock, merge_clean>>
    /\ UNCHANGED offMerge

\* variant: the workspace is copied to the archive and stays where it is
MergeArchive_Copy ==
    /\ merge_pc = "archive"
    /\ LET sid == merge_completed[merge_idx]
       IN  /\ archive' = [archive EXCEPT ![sid] = workspaces[sid]]
           /\ UNCHANGED workspaces
    /\ IF merge_idx = Len(merge_completed)
       THEN /\ merge_pc' = "idle"
            /\ merge_clean' = TRUE
            /\ UNCHANGED merge_idx
       ELSE /\ merge_pc' = "memories"
            /\ merge_idx' = merge_idx + 1
            /\ UNCHANGED merge_clean
    /\ UNCHANGED <<shared_guidance, shared_memory, merge_completed, merge_clock>>
    /\ UNCHANGED offMerge

\* line 187: archive_session(cerebrum_path, workspace), and the loop's
\* next round or the end of the run
MergeArchive ==
    /\ merge_pc = "archive"
    /\ LET sid == merge_completed[merge_idx]
       IN  /\ archive' = [archive EXCEPT ![sid] = workspaces[sid]]
           /\ workspaces' = [workspaces EXCEPT ![sid] = NoWorkspace]
    /\ IF merge_idx = Len(merge_completed)
       THEN /\ merge_pc' = "idle"
            /\ merge_clean' = TRUE
            /\ UNCHANGED merge_idx
       ELSE /\ merge_pc' = "memories"
            /\ merge_idx' = merge_idx + 1
            /\ UNCHANGED merge_clean
    /\ UNCHANGED <<shared_guidance, shared_memory, merge_completed, merge_clock>>
    /\ UNCHANGED offMerge

\* the merge process dies between two steps
MergeKill ==
    /\ merge_pc \in {"guidance", "memories", "archive"}
    /\ merge_pc' = "idle"
    /\ UNCHANGED <<workspaces, archive, shared_guidance, shared_memory,
                   merge_completed, merge_idx, merge_clock, merge_clean>>
    /\ UNCHANGED offMerge

-----------------------------------------------------------------------------
(* SpecAbandon: the merge tool run beside the worker and the retry tool    *)

\* the sessions directory as the merge finds it beside the worker and the
\* retry tool: the workspace of the session in work, once created
sessions_dir ==
    [sid \in Sessions |->
        IF sid = SessionId /\ status_file # Absent
        THEN Workspace(status_file, manifest_file, NoGuidance, <<>>)
        ELSE NoWorkspace]

\* variant: every active session is merged, complete or not
merge_completed_sessions_Active ==
    /\ rpc = "idle"
    /\ merge_clock < MaxRuns
    /\ merge_clock' = merge_clock + 1
    /\ \E order \in DirectoryOrders(sessions_dir), dry_run \in BOOLEAN :
          LET active_sessions == get_active_sessions(sessions_dir, order)
              completed == active_sessions
          IN  IF completed = <<>> \/ dry_run
              THEN UNCHANGED <<diskVars, archive, shared_guidance, shared_memory>>
              ELSE /\ shared_guidance' =
                        merge_guidance_files(sessions_dir, shared_guidance,
                                             completed, merge_clock')
                   /\ shared_memory' =
                        move_memories(shared_memory, SessionId,
                                      sessions_dir[SessionId].memories,
                                      DOMAIN sessions_dir[SessionId].memories)
                   /\ archive' = [archive EXCEPT ![SessionId] = sessions_dir[SessionId]]
                   /\ status_file' = Absent
                   /\ manifest_file' = Absent
                   /\ parsed_files' = <<>>
                   /\ merged_file' = Absent
                   /\ lockfile' = FALSE
                   /\ UNCHANGED status_writes
    /\ UNCHANGED <<workspaces, merge_pc, merge_completed, merge_idx, merge_clean>>
    /\ UNCHANGED <<chunkVars, storeVars, mergerVars, splitVars, sessVars, raceVars, ctxVars, selVars>>
    /\ UNCHANGED <<workerVars, retryVars, histVars>>

\* merge_completed_sessions, run to its end while no retry is running: the
\* scan, and for a completed session the guidance merge, the move of its
\* memories and the move of its workspace (status, manifest, chunk inputs,
\* analyses, marker) to the archive
merge_completed_sessions ==
    /\ rpc = "idle"
    /\ merge_clock < MaxRuns
    /\ merge_clock' = merge_clock + 1
    /\ \E order \in DirectoryOrders(sessions_dir), dry_run \in BOOLEAN :
          LET active_sessions == get_active_sessions(sessions_dir, order)
              completed == SelectSeq(active_sessions, LAMBDA sid :
                               sessions_dir[sid].status.status = "complete")
          IN  IF completed = <<>> \/ dry_run
              THEN UNCHANGED <<diskVars, archive, shared_guidance, shared_memory>>
              ELSE /\ shared_guidance' =
                        merge_guidance_files(sessions_dir, shared_guidance,
                                             completed, merge_clock')
                   /\ shared_memory' =
                        move_memories(shared_memory, SessionId,
                                      sessions_dir[SessionId].memories,
                                      DOMAIN sessions_dir[SessionId].memories)
                   /\ archive' = [archive EXCEPT ![SessionId] = sessions_dir[SessionId]]
                   /\ status_file' = Absent
                   /\ manifest_file' = Absent
                   /\ parsed_files' = <<>>
                   /\ merged_file' = Absent
                   /\ lockfile' = FALSE
                   /\ UNCHANGED status_writes
    /\ UNCHANGED <<workspaces, merge_pc, merge_completed, merge_idx, merge_clean>>
    /\ UNCHANGED <<chunkVars, storeVars, mergerVars, splitVars, sessVars, raceVars, ctxVars, selVars>>
    /\ UNCHANGED <<workerVars, retryVars, histVars>>

-----------------------------------------------------------------------------
(* One call of _merge_chunk_results on a list of results                   *)

MaxResults == 2

LongSummaryLen == 501

\* a summary longer than the limit of a merged summary
LongSummary == [i \in 1..LongSummaryLen |-> "a"]

OkSummary == <<" ", "o", "k", " ">>

\* the lists a category of a result can hold
ItemLists == <<(<<>>), <<UseX>>, <<UseXLower, UseY>>, <<UseX, UseX>>, <<UseY>>>>

ItemList(k) == ItemLists[(k % Len(ItemLists)) + 1]

\* the results an analyzer can have returned for a chunk
MergerResults ==
    {AnalysisResult(ItemList(k), ItemList(k + 1), ItemList(k + 2),
                    ItemList(k + 3), ItemList(k + 4), s) :
        k \in 0..(Len(ItemLists) - 1), s \in {NoSummary, OkSummary, LongSummary}}

MergerIdle ==
    /\ merger_results = <<>>
    /\ merger_merged = EmptyResult
    /\ merger_pc = "idle"

MergerInputs ==
    /\ merger_results \in UNION {[1..n -> MergerResults] : n \in 0..MaxResults}
    /\ merger_merged = EmptyResult
    /\ merger_pc = "ready"

\* merged = _merge_chunk_results(chunk_results)
MergerCall ==
    /\ merger_pc = "ready"
    /\ merger_merged' = merge_chunk_results(merger_results)
    /\ merger_pc' = "done"
    /\ UNCHANGED merger_results
    /\ UNCHANGED offMerger

-----------------------------------------------------------------------------
(* SpecSplit: the natural strategy's choice of split points on a text of   *)
(* 400,000 characters with the default sizes, for every set of boundary    *)
(* positions on a grid.  The text enters _select_split_points and the      *)
(* chunk loop only through its length and its boundary positions.          *)

DefaultChunkSize == 150000

MinChunkSize == 50000

LongTextLength == 400000

\* distance of the boundary positions tried
GridStep == MinChunkSize \div 2

BoundaryGrid == {GridStep * i : i \in 1..(LongTextLength \div GridStep)}

\* variant: no final chunk is added after the last split point
natural_spans_NoTail(boundaries, text_length) ==
    LET split_points == select_split_points(boundaries, text_length)
    IN  [i \in DOMAIN split_points |->
            <<IF i = 1 THEN 0 ELSE split_points[i - 1], split_points[i]>>]

\* the (start_char, end_char) of the chunks _chunk_natural_boundaries makes:
\* one per split point, then the final chunk if start < len(text)
natural_spans(boundaries, text_length) ==
    LET split_points == select_split_points(boundaries, text_length)
        start == IF split_points = <<>> THEN 0
                 ELSE split_points[Len(split_points)]
        spans == [i \in DOMAIN split_points |->
                     <<IF i = 1 THEN 0 ELSE split_points[i - 1], split_points[i]>>]
    IN  IF start < text_length THEN Append(spans, <<start, text_length>>)
        ELSE spans

SplitIdle ==
    /\ split_boundaries = <<>>
    /\ split_spans = <<>>
    /\ split_pc = "idle"

SplitInputs ==
    /\ text = <<>>
    /\ strategy = "natural"
    /\ target_size = DefaultChunkSize
    /\ min_size = MinChunkSize
    /\ chunks = <<>>
    /\ chunk_pc = "idle"
    /\ split_boundaries \in {[b \in bs |-> "paragraph_break"] : bs \in SUBSET BoundaryGrid}
    /\ split_spans = <<>>
    /\ split_pc = "ready"

\* chunker.chunk(text, 'natural') on the long text
DoSplit ==
    /\ split_pc = "ready"
    /\ split_spans' = natural_spans(split_boundaries, LongTextLength)
    /\ split_pc' = "done"
    /\ UNCHANGED split_boundaries
    /\ UNCHANGED offSplit

-----------------------------------------------------------------------------
(* SpecSessions: the workers and retry runs of two sessions, step by step  *)
(* in any order, on one file tree                                          *)

MaxSessionChunks == 2   \* most chunks of the first session in SpecSessions

\* variant: the workspace root does not depend on the session id: every
\* session works in the directory of the first
SessionWorkspace_Shared(session_id) ==
    LET root == <<".ai", "subconscious", ".ai", "sessions", SessionB>>
    IN  [root |-> root,
         analyses_dir |-> Append(root, "analyses"),
         parsed_dir |-> Append(root, "parsed"),
         memories_dir |-> Append(root, "memories"),
         status_file |-> Append(root, "status.json"),
         manifest_file |-> Append(root, "manifest.json"),
         guidance_file |-> Append(root, "guidance.md"),
         log_file |-> Append(root, "processing.log")]

\* SessionWorkspace.__init__: the paths of a session, below cerebrum_path; a
\* path is the tuple of its components
SessionWorkspace(session_id) ==
    LET root == <<".ai", "subconscious", ".ai", "sessions", session_id>>
    IN  [root |-> root,
         analyses_dir |-> Append(root, "analyses"),
         parsed_dir |-> Append(root, "parsed"),
         memories_dir |-> Append(root, "memories"),
         status_file |-> Append(root, "status.json"),
         manifest_file |-> Append(root, "manifest.json"),
         guidance_file |-> Append(root, "guidance.md"),
         log_file |-> Append(root, "processing.log")]

\* parsed_dir / f'parsed_{session_id}_chunk{chunk_num}.txt'
chunk_file(session_id, k) ==
    Append(SessionWorkspace(session_id).parsed_dir,
           <<"parsed_", session_id, "_chunk", Str(k), ".txt">>)

\* analyses_dir / f'analysis_{session_id}_chunk{chunk_num}.md': the raw
\* output the analyzer saves
raw_file(session_id, k) ==
    Append(SessionWorkspace(session_id).analyses_dir,
           <<"analysis_", session_id, "_chunk", Str(k), ".md">>)

\* the content of the file at a path, Absent when there is none
read_file(tree, path) == IF path \in DOMAIN tree THEN tree[path] ELSE Absent

\* workspace.log(message): a line is appended to the session log
log(tree, session_id, message) ==
    LET log_file == SessionWorkspace(session_id).log_file
    IN  (log_file :> (IF log_file \in DOMAIN tree THEN tree[log_file] ELSE <<>>)
                     \o <<(<<Now, message>>)>>) @@ tree

\* one file written
write_file(tree, path, content) == (path :> content) @@ tree

\* workspace.update_chunk_status on the tree
tree_update_chunk_status(tree, session_id, k, status, metadata) ==
    LET manifest == SessionWorkspace(session_id).manifest_file
    IN  IF manifest \notin DOMAIN tree THEN tree
        ELSE write_file(tree, manifest,
                        update_chunk_status(tree[manifest], k, status, metadata))

SessIdle ==
    /\ fs = <<>>
    /\ sess = [sid \in Sessions |->
                 [pc |-> "start", total |-> 0, chunk_num |-> 0,
                  accumulated_context |-> <<>>, chunk_data |-> <<>>]]
    /\ addressed = "none"

\* main 692-698: workspace.create()
SessCreate(sid) ==
    /\ sess[sid].pc = "start"
    /\ fs' = write_file(fs, SessionWorkspace(sid).status_file, create(sid))
    /\ sess' = [sess EXCEPT ![sid].pc = "created"]
    /\ addressed' = sid
    /\ UNCHANGED offSess

\* the numbers of chunks the text of a session can have: the second
\* session's text has one chunk
SessionChunks(sid) == IF sid = SessionId THEN 1..MaxSessionChunks ELSE {1}

\* _analyze_with_chunking 181-196: init_chunk_manifest(len(chunks))
SessInitManifest(sid) ==
    /\ sess[sid].pc = "created"
    /\ \E n \in SessionChunks(sid) :
          /\ fs' = write_file(fs, SessionWorkspace(sid).manifest_file,
                              init_chunk_manifest(sid, n))
          /\ sess' = [sess EXCEPT ![sid].pc = "loop", ![sid].total = n,
                                  ![sid].chunk_num = 1]
    /\ addressed' = sid
    /\ UNCHANGED offSess

\* _analyze_with_chunking 198-220: log, mark the chunk processing, write its
\* input
SessCoordBegin(sid) ==
    /\ sess[sid].pc = "loop"
    /\ sess[sid].chunk_num <= sess[sid].total
    /\ LET k == sess[sid].chunk_num
       IN  fs' = write_file(
                    tree_update_chunk_status(log(fs, sid, "[LLM]"), sid, k,
                                             "processing", [started_at |-> Now]),
                    chunk_file(sid, k),
                    chunk_text_with_context(sess[sid].accumulated_context,
                                            chunk_text(k)))
    /\ sess' = [sess EXCEPT ![sid].pc = "analyze"]
    /\ addressed' = sid
    /\ UNCHANGED offSess

\* _analyze_with_chunking 220-251: the analyzer saved its raw output and
\* returned a result, or it raised
SessCoordEnd(sid) ==
    /\ sess[sid].pc = "analyze"
    /\ LET k == sess[sid].chunk_num
           prior == read_file(fs, SessionWorkspace(sid).manifest_file).chunks[k]
       IN  \/ /\ fs' = tree_update_chunk_status(
                          write_file(fs, raw_file(sid, k), ResultA),
                          sid, k, "complete",
                          [completed_at |-> Now,
                           patterns_count |-> Len(ResultA.patterns),
                           decisions_count |-> Len(ResultA.decisions)])
              /\ sess' = [sess EXCEPT
                            ![sid].pc = "loop",
                            ![sid].chunk_num = k + 1,
                            ![sid].accumulated_context =
                                IF k < sess[sid].total
                                THEN to_context_summary(ResultA) ELSE @]
           \/ /\ fs' = tree_update_chunk_status(
                          log(fs, sid, "[ERROR]"), sid, k, "failed",
                          [failed_at |-> Now, error |-> "analysis failed",
                           attempts |-> Get(prior, "attempts", 0) + 1])
              /\ sess' = [sess EXCEPT ![sid].pc = "loop",
                                      ![sid].chunk_num = k + 1]
    /\ addressed' = sid
    /\ UNCHANGED offSess

\* main 800-814: mark_complete, or mark_failed after an exception
SessMark(sid) ==
    /\ sess[sid].pc = "loop"
    /\ sess[sid].chunk_num > sess[sid].total
    /\ \E doc \in {mark_complete(sid, [patterns_count |-> 0, decisions_count |-> 0]),
                   mark_failed(sid, "error")} :
          fs' = write_file(fs, SessionWorkspace(sid).status_file, doc)
    /\ sess' = [sess EXCEPT ![sid].pc = "exited"]
    /\ addressed' = sid
    /\ UNCHANGED offSess

\* retry_session 136-176 and retry_chunk 81-100 for one retryable chunk of
\* the session: log, mark the chunk processing with attempts + 1
SessRetryBegin(sid) ==
    /\ sess[sid].pc = "exited"
    /\ LET failed == get_failed_chunks(read_file(fs, SessionWorkspace(sid).manifest_file))
       IN  \E i \in 1..Len(failed) :
              LET k == failed[i][1]
                  chunk_data == failed[i][2]
              IN  /\ chunk_file(sid, k) \in DOMAIN fs
                  /\ fs' = tree_update_chunk_status(
                              log(fs, sid, "[RETRY]"), sid, k, "processing",
                              [started_at |-> Now,
                               attempts |-> Get(chunk_data, "attempts", 0) + 1])
                  /\ sess' = [sess EXCEPT ![sid].pc = "retry",
                                          ![sid].chunk_num = k,
                                          ![sid].chunk_data = chunk_data]
    /\ addressed' = sid
    /\ UNCHANGED offSess

\* retry_chunk 100-124: the analyzer returned (its raw output is saved) or
\* raised again
SessRetryEnd(sid) ==
    /\ sess[sid].pc = "retry"
    /\ LET k == sess[sid].chunk_num
       IN  \/ fs' = tree_update_chunk_status(
                       log(write_file(fs, raw_file(sid, k), ResultB), sid, "[RETRY]"),
                       sid, k, "complete",
                       [completed_at |-> Now,
                        patterns_count |-> Len(ResultB.patterns),
                        decisions_count |-> Len(ResultB.decisions),
                        retried |-> TRUE])
           \/ fs' = tree_update_chunk_status(
                       log(fs, sid, "[RETRY] ERROR"), sid, k, "failed",
                       [failed_at |-> Now, error |-> "analysis failed",
                        attempts |-> Get(sess[sid].chunk_data, "attempts", 0) + 1])
    /\ sess' = [sess EXCEPT ![sid].pc = "exited"]
    /\ addressed' = sid
    /\ UNCHANGED offSess

-----------------------------------------------------------------------------
(* SpecRace: the coordinator of a worker and a retry run at work on the    *)
(* manifest of one session at the same time                                *)

Procs == {"worker", "retry"}

NoCall == [none |-> TRUE]

RaceIdle ==
    /\ race_doc = Absent
    /\ race_pc = [p \in Procs |-> "idle"]
    /\ race_k = [p \in Procs |-> 0]
    /\ race_call = [p \in Procs |-> NoCall]
    /\ race_snap = [p \in Procs |-> Absent]
    /\ race_failed = <<>>
    /\ race_lost = {}

\* the chunks of the session: one that failed and one the worker is at
RaceChunks == 2

\* the pass of the worker is under way: chunk 1 failed, chunk 2 is next; a
\* retry run is started
RaceInputs ==
    /\ race_doc =
              update_chunk_status(
                  update_chunk_status(init_chunk_manifest(SessionId, RaceChunks), 1,
                                      "processing", [started_at |-> Now]),
                  1, "failed",
                  [failed_at |-> Now, error |-> "analysis failed", attempts |-> 1])
    /\ race_pc = [p \in Procs |-> IF p = "worker" THEN "loop" ELSE "scan"]
    /\ race_k = [p \in Procs |-> IF p = "worker" THEN 2 ELSE 0]
    /\ race_call = [p \in Procs |-> NoCall]
    /\ race_snap = [p \in Procs |-> Absent]
    /\ race_failed = <<>>
    /\ race_lost = {}

\* update_chunk_status 130-134 in process p: the manifest is loaded
RaceLoad(p, k, status, metadata, pc) ==
    /\ race_snap' = [race_snap EXCEPT ![p] = race_doc]
    /\ race_call' = [race_call EXCEPT ![p] =
                        [chunk_no |-> k, status |-> status, metadata |-> metadata]]
    /\ race_k' = [race_k EXCEPT ![p] = k]
    /\ race_pc' = [race_pc EXCEPT ![p] = pc]
    /\ UNCHANGED <<race_doc, race_lost>>

\* variant: the manifest is loaded again, under a lock, when it is written
RaceStore_Locked(p) ==
    /\ race_pc[p] \in {"store_processing", "store_result"}
    /\ LET call == race_call[p]
       IN  race_doc' = update_chunk_status(race_doc, call.chunk_no, call.status,
                                           call.metadata)
    /\ race_lost' = race_lost
    /\ race_pc' = [race_pc EXCEPT ![p] =
                      IF @ = "store_processing" THEN "analyze" ELSE "loop"]
    /\ race_k' = [race_k EXCEPT ![p] =
                     IF race_pc[p] = "store_result" /\ p = "worker" THEN @ + 1 ELSE @]
    /\ race_failed' = IF race_pc[p] = "store_result" /\ p = "retry"
                      THEN Tail(race_failed) ELSE race_failed
    /\ race_call' = [race_call EXCEPT ![p] = NoCall]
    /\ race_snap' = [race_snap EXCEPT ![p] = Absent]
    /\ UNCHANGED offRace

\* update_chunk_status 136-149 in process p: the entry is changed in the
\* loaded manifest, the whole document is written, the call returns.  An
\* entry of another chunk that differs from the loaded one is put back: the
\* update that made it is lost.
RaceStore(p) ==
    /\ race_pc[p] \in {"store_processing", "store_result"}
    /\ LET call == race_call[p]
       IN  /\ race_doc' = update_chunk_status(race_snap[p], call.chunk_no,
                                              call.status, call.metadata)
           /\ race_lost' = race_lost \cup
                 {<<j, race_doc.chunks[j].status>> :
                     j \in {i \in DOMAIN race_doc.chunks \ {call.chunk_no} :
                               race_doc.chunks[i] # race_snap[p].chunks[i]}}
    /\ race_pc' = [race_pc EXCEPT ![p] =
                      IF @ = "store_processing" THEN "analyze" ELSE "loop"]
    /\ race_k' = [race_k EXCEPT ![p] =
                     IF race_pc[p] = "store_result" /\ p = "worker" THEN @ + 1 ELSE @]
    /\ race_failed' = IF race_pc[p] = "store_result" /\ p = "retry"
                      THEN Tail(race_failed) ELSE race_failed
    /\ race_call' = [race_call EXCEPT ![p] = NoCall]
    /\ race_snap' = [race_snap EXCEPT ![p] = Absent]
    /\ UNCHANGED offRace

\* _analyze_with_chunking 198-206: the worker calls update_chunk_status for
\* the next chunk
RaceWorkerBegin ==
    /\ race_pc["worker"] = "loop"
    /\ race_k["worker"] <= race_doc.total_chunks
    /\ RaceLoad("worker", race_k["worker"], "processing", [started_at |-> Now],
                "store_processing")
    /\ UNCHANGED race_failed
    /\ UNCHANGED offRace

\* _analyze_with_chunking 220-251: the analyzer returned or raised; the
\* worker calls update_chunk_status with the outcome
RaceWorkerResult ==
    /\ race_pc["worker"] = "analyze"
    /\ LET k == race_k["worker"]
       IN  \/ RaceLoad("worker", k, "complete",
                       [completed_at |-> Now,
                        patterns_count |-> Len(ResultA.patterns),
                        decisions_count |-> Len(ResultA.decisions)],
                       "store_result")
           \/ RaceLoad("worker", k, "failed",
                       [failed_at |-> Now, error |-> "analysis failed",
                        attempts |-> Get(get_chunk_manifest(race_doc).chunks[k],
                                         "attempts", 0) + 1],
                       "store_result")
    /\ UNCHANGED race_failed
    /\ UNCHANGED offRace

\* retry_session 151-160: the retry run, or the next one after it, reads the
\* retryable chunks
RaceRetryScan ==
    /\ \/ race_pc["retry"] = "scan"
       \/ race_pc["retry"] = "loop" /\ race_failed = <<>>
    /\ race_failed' = get_failed_chunks(race_doc)
    /\ race_pc' = [race_pc EXCEPT !["retry"] = "loop"]
    /\ UNCHANGED <<race_doc, race_k, race_call, race_snap, race_lost>>
    /\ UNCHANGED offRace

\* retry_chunk 81-96: the retry run calls update_chunk_status for the next
\* chunk of its list
RaceRetryBegin ==
    /\ race_pc["retry"] = "loop"
    /\ race_failed # <<>>
    /\ RaceLoad("retry", race_failed[1][1], "processing",
                [started_at |-> Now,
                 attempts |-> Get(race_failed[1][2], "attempts", 0) + 1],
                "store_processing")
    /\ UNCHANGED race_failed
    /\ UNCHANGED offRace

\* retry_chunk 98-124: the analyzer returned or raised again
RaceRetryResult ==
    /\ race_pc["retry"] = "analyze"
    /\ LET k == race_k["retry"]
       IN  \/ RaceLoad("retry", k, "complete",
                       [completed_at |-> Now,
                        patterns_count |-> Len(ResultB.patterns),
                        decisions_count |-> Len(ResultB.decisions),
                        retried |-> TRUE],
                       "store_result")
           \/ RaceLoad("retry", k, "failed",
                       [failed_at |-> Now, error |-> "analysis failed",
                        attempts |-> Get(race_failed[1][2], "attempts", 0) + 1],
                       "store_result")
    /\ UNCHANGED race_failed
    /\ UNCHANGED offRace

-----------------------------------------------------------------------------
(* SpecSelect: _chunk_natural_boundaries on a text of any length with any  *)
(* set of boundary positions; the while loop of _select_split_points runs  *)
(* one iteration per step.  The text enters only through its length and    *)
(* the boundary positions.                                                 *)

\* the pattern a boundary position was found by
ReasonAt(b) == IF b % 2 = 0 THEN "paragraph_break" ELSE "tool_result_end"

SelectIdle ==
    /\ sel_boundaries = <<>>
    /\ sel_pos = 0
    /\ sel_points = <<>>
    /\ sel_pc = "idle"

\* boundaries = self._find_boundaries(text); split_points = [];
\* current_pos = 0
SelectInputs ==
    /\ text \in {[i \in 1..n |-> "a"] : n \in 0..MaxLen}
    /\ strategy = "natural"
    /\ target_size \in 1..MaxTarget
    /\ min_size \in 1..MaxMin
    /\ chunks = <<>>
    /\ chunk_pc = "idle"
    /\ sel_boundaries \in {[b \in bs |-> ReasonAt(b)] : bs \in SUBSET (1..Len(text))}
    /\ sel_pos = 0
    /\ sel_points = <<>>
    /\ sel_pc = "loop"

\* the loop ends: `while sel_pos < text_length` is false, or
\* `if target_pos >= text_length: break`
SelectBreak ==
    /\ sel_pc = "loop"
    /\ \/ ~(sel_pos < Len(text))
       \/ sel_pos + target_size >= Len(text)
    /\ sel_pc' = "selected"
    /\ UNCHANGED <<sel_boundaries, sel_pos, sel_points>>
    /\ UNCHANGED chunkVars
    /\ UNCHANGED offSelect

\* one iteration that appends a split point.  A strictly increasing list of
\* positions in 1..len(text) has at most len(text) entries: the guard on the
\* length keeps the list finite should the cursor not advance.
SelectSplit ==
    /\ sel_pc = "loop"
    /\ sel_pos < Len(text)
    /\ sel_pos + target_size < Len(text)
    /\ Len(sel_points) <= Len(text)
    /\ LET target_pos == sel_pos + target_size
           best_boundary ==
               find_nearest_boundary(SortedSeq(DOMAIN sel_boundaries), target_pos,
                                     sel_pos, Len(text))
       IN  IF best_boundary # None
           THEN /\ sel_points' = Append(sel_points, best_boundary)
                /\ sel_pos' = best_boundary
           ELSE /\ sel_points' = Append(sel_points, target_pos)
                /\ sel_pos' = target_pos
    /\ UNCHANGED <<sel_boundaries, sel_pc>>
    /\ UNCHANGED chunkVars
    /\ UNCHANGED offSelect

\* the chunks are created from the split points (95-126)
SelectChunks ==
    /\ sel_pc = "selected"
    /\ LET start == IF sel_points = <<>> THEN 0
                    ELSE sel_points[Len(sel_points)]
       IN  chunks' = SetTotal(NaturalFinalChunk(text,
                         NaturalSplitChunks(text, sel_boundaries, sel_points),
                         start))
    /\ sel_pc' = "done"
    /\ UNCHANGED <<sel_boundaries, sel_pos, sel_points>>
    /\ UNCHANGED <<text, strategy, target_size, min_size, chunk_pc>>
    /\ UNCHANGED offSelect

-----------------------------------------------------------------------------
(* SpecContext: one call of to_context_summary on the result of a chunk,   *)
(* as _analyze_with_chunking makes it after a chunk that is not the last.  *)

MaxItems == 4

\* the first n items of a category: item i of category c is the text c i
Items(c, n) == [i \in 1..n |-> <<c, Str(i)>>]

\* the results an analyzer can have returned: up to MaxItems items in each
\* category and no summary, an empty summary or a summary
ContextResults ==
    {AnalysisResult(Items("p", np), Items("d", nd), Items("t", nt),
                    Items("r", nr), Items("l", nl), s) :
        np \in 0..MaxItems, nd \in 0..MaxItems, nt \in 0..MaxItems,
        nr \in {0, MaxItems}, nl \in {0, 1},
        s \in {NoSummary, <<>>, OkSummary}}

CtxIdle ==
    /\ ctx_result = EmptyResult
    /\ ctx_text = <<>>
    /\ ctx_pc = "idle"

ContextInputs ==
    /\ ctx_result \in ContextResults
    /\ ctx_text = <<>>
    /\ ctx_pc = "ready"

\* accumulated_context = result.to_context_summary()
ContextCall ==
    /\ ctx_pc = "ready"
    /\ ctx_text' = to_context_summary(ctx_result)
    /\ ctx_pc' = "done"
    /\ UNCHANGED ctx_result
    /\ UNCHANGED offCtx

-----------------------------------------------------------------------------
(* The specifications                                                      *)

InitChunk ==
    /\ ChunkInputs /\ PipelineIdle /\ StoreIdle /\ MergeIdle /\ MergerIdle
    /\ SplitIdle /\ SessIdle /\ RaceIdle /\ CtxIdle /\ SelectIdle

NextChunk == DoChunk

SpecChunk == InitChunk /\ [][NextChunk]_vars

Init ==
    /\ ChunkerIdle /\ PipelineIdle /\ StoreIdle /\ MergeIdle /\ MergerIdle
    /\ SplitIdle /\ SessIdle /\ RaceIdle /\ CtxIdle /\ SelectIdle

Next ==
    \/ WorkerCreate
    \/ WorkerLock
    \/ WorkerNoTranscript
    \/ WorkerLoad
    \/ SingleOk
    \/ SingleFail
    \/ CoordInit
    \/ CoordAnalyzer
    \/ CoordAbort
    \/ CoordBegin
    \/ CoordOk
    \/ CoordFail
    \/ CoordMerge
    \/ WorkerComplete
    \/ WorkerError
    \/ WorkerInterrupt
    \/ WorkerUnlock
    \/ WorkerKill
    \/ RetryScan
    \/ RetryBegin
    \/ RetryOk
    \/ RetryFail
    \/ RetryEnd
    \/ RetryKill

Spec == Init /\ [][Next]_vars

InitStore ==
    /\ ChunkerIdle /\ PipelineIdle /\ StoreIdle /\ MergeIdle /\ MergerIdle
    /\ SplitIdle /\ SessIdle /\ RaceIdle /\ CtxIdle /\ SelectIdle

NextStore ==
    \/ StoreCallStatus
    \/ StoreCallManifest
    \/ StoreOpen
    \/ StoreFlush
    \/ StoreClose
    \/ StoreKill
    \/ StoreRead

SpecStore == InitStore /\ [][NextStore]_vars

InitMerge ==
    /\ ChunkerIdle /\ PipelineIdle /\ StoreIdle /\ MergeInputs /\ MergerIdle
    /\ SplitIdle /\ SessIdle /\ RaceIdle /\ CtxIdle /\ SelectIdle

NextMerge ==
    \/ MergeStart
    \/ MergeGuidance
    \/ MergeMemories
    \/ MergeArchive
    \/ MergeKill

SpecMerge == InitMerge /\ [][NextMerge]_vars

InitMerger ==
    /\ ChunkerIdle /\ PipelineIdle /\ StoreIdle /\ MergeIdle /\ MergerInputs
    /\ SplitIdle /\ SessIdle /\ RaceIdle /\ CtxIdle /\ SelectIdle

NextMerger == MergerCall

SpecMerger == InitMerger /\ [][NextMerger]_vars

InitSplit ==
    /\ SplitInputs /\ PipelineIdle /\ StoreIdle /\ MergeIdle /\ MergerIdle
    /\ SessIdle /\ RaceIdle /\ CtxIdle /\ SelectIdle

NextSplit == DoSplit

SpecSplit == InitSplit /\ [][NextSplit]_vars

NextAbandon == Next \/ merge_completed_sessions

InitSessions ==
    /\ ChunkerIdle /\ PipelineIdle /\ StoreIdle /\ MergeIdle /\ MergerIdle
    /\ SplitIdle /\ SessIdle /\ RaceIdle /\ CtxIdle /\ SelectIdle

NextSessions ==
    \E sid \in Sessions :
        \/ SessCreate(sid)
        \/ SessInitManifest(sid)
        \/ SessCoordBegin(sid)
        \/ SessCoordEnd(sid)
        \/ SessMark(sid)
        \/ SessRetryBegin(sid)
        \/ SessRetryEnd(sid)

SpecSessions == InitSessions /\ [][NextSessions]_vars

InitRace ==
    /\ ChunkerIdle /\ PipelineIdle /\ StoreIdle /\ MergeIdle /\ MergerIdle
    /\ SplitIdle /\ SessIdle /\ RaceInputs /\ CtxIdle /\ SelectIdle

NextRace ==
    \/ RaceWorkerBegin
    \/ RaceWorkerResult
    \/ RaceRetryScan
    \/ RaceRetryBegin
    \/ RaceRetryResult
    \/ \E p \in Procs : RaceStore(p)

SpecRace == InitRace /\ [][NextRace]_vars

SpecAbandon == Init /\ [][NextAbandon]_vars

-----------------------------------------------------------------------------
(* Properties of ConversationChunker.chunk (SpecChunk)                     *)

\* chunks cs tile txt: first starts at 0, each starts where the previous one
\* ended, the last ends at len(txt), each text is txt[start:end], and the
\* texts concatenated are txt
Tiles(txt, cs) ==
    /\ cs # <<>>
    /\ cs[1].start_char = 0
    /\ \A i \in 2..Len(cs) : cs[i].start_char = cs[i - 1].end_char
    /\ cs[Len(cs)].end_char = Len(txt)
    /\ \A i \in DOMAIN cs :
          /\ cs[i].start_char <= cs[i].end_char
          /\ cs[i].text = SubSeq(txt, cs[i].start_char + 1, cs[i].end_char)
    /\ Concat([i \in DOMAIN cs |-> cs[i].text]) = txt

\* C1: for a text longer than target_size, under the natural and the fixed
\* strategies with 1 <= min_size <= target_size, the chunks chunk() returns
\* are contiguous and non-overlapping, start at 0, end at len(text), each
\* hold text[start_char:end_char], and concatenate to the text.
C1_NaturalFixedTile ==
    ( /\ chunk_pc = "returned"
      /\ strategy \in {"natural", "fixed"}
      /\ Len(text) > target_size
      /\ 1 <= min_size /\ min_size <= target_size )
    => Tiles(text, chunks)

\* a natural split of three chunks or more, one of them cut at a paragraph
\* break and one at the target size
C1_Witness ==
    /\ chunk_pc = "returned"
    /\ strategy = "natural"
    /\ Len(text) > target_size
    /\ min_size <= target_size
    /\ Len(chunks) >= 3
    /\ \E i \in DOMAIN chunks : chunks[i].boundary_reason = "paragraph_break"
    /\ \E i \in DOMAIN chunks : chunks[i].boundary_reason = "target_size_reached"

\* C2: for a text longer than target_size the sentence strategy returns
\* chunks whose offsets are contiguous and cover [0, len(text)) and whose
\* texts concatenate to the text.
C2_SentencesTile ==
    ( /\ chunk_pc = "returned"
      /\ strategy = "sentences"
      /\ Len(text) > target_size )
    => Tiles(text, chunks)

-----------------------------------------------------------------------------
(* Properties of the coordinator and the retry coordinator (Spec)          *)

\* the manifest's chunk records (none before init_chunk_manifest)
Entries == get_chunk_manifest(manifest_file).chunks

Finished(k) == Entries[k].status \in {"complete", "failed"}

NoRetryYet == \A k \in Chunks : retries[k] = 0

\* C3: in a coordinator run (before any retry) the chunks are processed one
\* at a time in ascending order: at most one chunk is processing, every
\* chunk before a started one is complete or failed, every chunk after a
\* processing one is still pending.
C3_OneAtATime ==
    NoRetryYet =>
        /\ Cardinality({k \in DOMAIN Entries : Entries[k].status = "processing"}) <= 1
        /\ \A k \in DOMAIN Entries :
              Entries[k].status # "pending" =>
                  \A j \in DOMAIN Entries : j < k => Finished(j)
        /\ \A k \in DOMAIN Entries :
              Entries[k].status = "processing" =>
                  \A j \in DOMAIN Entries : j > k => Entries[j].status = "pending"

\* chunk 2 of 3 is being analysed after chunk 1 failed
C3_Witness ==
    /\ wpc = "analyze"
    /\ total = 3
    /\ Entries[1].status = "failed"
    /\ Entries[2].status = "processing"
    /\ Entries[3].status = "pending"

\* a step in which the analyzer fails on chunk k of the coordinator pass
C4_Step ==
    \A k \in Chunks :
        (pass_result[k].outcome # "fail" /\ pass_result'[k].outcome = "fail") =>
            /\ Entries'[k].status = "failed"
            /\ "error" \in DOMAIN Entries'[k]
            /\ "failed_at" \in DOMAIN Entries'[k]
            /\ Entries'[k].attempts = Entries[k].attempts + 1
            /\ status_file' = status_file
            /\ wpc' = "loop"
            /\ chunk_num' = k + 1

\* when the coordinator has returned (the worker stands right after it)
\* every chunk after a failed one was attempted, and a failed session status
\* never comes from an analyzer failure
C4_State ==
    /\ (total > 0 /\ wpc = "post") =>
            \A k \in 1..total : pass_result[k].outcome = "fail" =>
                \A j \in k..total : pass_result[j].outcome # "none"
    /\ get_status(SessionId, status_file).status = "failed" =>
            status_file.error \in {"Transcript file not found", "error"}

\* C4: an analyzer failure on chunk i marks the entry failed with an error
\* and attempts + 1, leaves the session status alone, and the coordinator
\* goes on to attempt every remaining chunk.
C4_FailureIsChunkScoped == [][C4_Step]_vars /\ []C4_State

\* the pass ran to its end although chunk 1 failed, and the session is complete
C4_Witness ==
    /\ total = 3
    /\ pass_result[1].outcome = "fail"
    /\ pass_result[2].outcome = "ok"
    /\ pass_result[3].outcome = "fail"
    /\ wpc = "exited"
    /\ status_file.status = "complete"

\* results of the chunks whose manifest status is complete, ascending
RECURSIVE CompletedResults(_)
CompletedResults(k) ==
    IF k > total THEN <<>>
    ELSE (IF Entries[k].status = "complete" THEN <<pass_result[k].result>> ELSE <<>>)
            \o CompletedResults(k + 1)

CoordStep == CoordAnalyzer \/ CoordBegin \/ CoordOk \/ CoordFail \/ CoordMerge

\* the coordinator pass was started and the worker went on past it
PassOver == total > 0 /\ wpc \in {"post", "finally", "exited"}

\* C5: a coordinator pass that is not killed runs to its end (it can always
\* take its next step and the loop variable stays within 1..N+1); at its end
\* every manifest entry is complete or failed and the merged result is
\* persisted and is the merge of the results of the completed chunks in
\* ascending order.
C5_PassEndsMerged ==
    /\ wpc \in {"construct", "loop", "analyze"} => ENABLED CoordStep
    /\ wpc \in {"loop", "analyze"} => chunk_num \in 1..(total + 1)
    /\ (PassOver /\ NoRetryYet) =>
          /\ DOMAIN Entries = 1..total
          /\ \A k \in 1..total : Finished(k)
          /\ merged_file # Absent
          /\ merged_file = merge_chunk_results(CompletedResults(1))

\* C6: get_failed_chunks returns exactly the entries that are failed with
\* attempts < 3, as (chunk number, record) pairs in ascending chunk number.
C6_RetryableChunks ==
    LET r == get_failed_chunks(manifest_file)
    IN /\ \A i \in DOMAIN r :
             /\ r[i][1] \in DOMAIN Entries
             /\ r[i][2] = Entries[r[i][1]]
             /\ Entries[r[i][1]].status = "failed"
             /\ Entries[r[i][1]].attempts < 3
       /\ \A k \in DOMAIN Entries :
             (Entries[k].status = "failed" /\ Entries[k].attempts < 3) =>
                 \E i \in DOMAIN r : r[i][1] = k
       /\ \A i, j \in DOMAIN r : i < j => r[i][1] < r[j][1]

\* a retry run has just read its list (one chunk) from a manifest that holds
\* an exhausted chunk, a retryable one and one that is pending or processing
C6_Witness ==
    /\ rpc = "loop"
    /\ ridx = 1
    /\ Len(failed_chunks) = 1
    /\ \E k \in DOMAIN Entries : Entries[k].status = "failed" /\ Entries[k].attempts = 3
    /\ \E k \in DOMAIN Entries : Entries[k].status = "failed" /\ Entries[k].attempts = 2
    /\ \E k \in DOMAIN Entries : Entries[k].status \in {"processing", "pending"}

\* the recorded attempts of the chunk the retry run is analysing
RetryAttempts == Get(failed_chunks[ridx][2], "attempts", 0)

\* C7 as stated: the wait before retrying a chunk with recorded attempts a
\* is none for a = 0 and min(2^a, 60) otherwise.
C7_WaitIsTwoToAttempts ==
    rpc = "analyze" =>
        wait_time = IF RetryAttempts = 0 THEN 0 ELSE Min(2 ^ RetryAttempts, 60)

\* C7 amended: the wait before retrying a chunk with recorded attempts a is
\* none for a = 0 and min(2^(a+1), 60) otherwise: 4, 8, 16, 32, 60, 60, 60
\* for a = 1..7.
C7_WaitIsTwoToNextAttempt ==
    LET waits == <<4, 8, 16, 32, 60, 60, 60>>
    IN /\ rpc = "analyze" => RetryAttempts > 0 /\ wait_time = waits[RetryAttempts]
       /\ backoff([status |-> "failed"]) = 0
       /\ backoff([status |-> "failed", attempts |-> 0]) = 0
       /\ \A a \in 1..7 : backoff([status |-> "failed", attempts |-> a]) = waits[a]

\* a chunk that failed twice is being retried after a wait of 8
C7_Witness ==
    /\ rpc = "analyze"
    /\ RetryAttempts = 2
    /\ wait_time = 8

\* C8: no step of a retry run writes the session status document.
C8_RetryKeepsStatus ==
    [][(rpc # "idle" \/ rpc' # "idle") =>
            (status_file' = status_file /\ status_writes' = status_writes)]_vars

\* a retry run ended with every chunk complete and the status still processing
C8_Witness ==
    /\ rpc = "idle"
    /\ success_count >= 1
    /\ total = 3
    /\ \A k \in 1..total : Entries[k].status = "complete"
    /\ status_file.status = "processing"

\* attempts = (1 if the coordinator pass failed on the chunk) + retries
C9_State ==
    \A k \in DOMAIN Entries :
        Entries[k].attempts =
            (IF pass_result[k].outcome = "fail" THEN 1 ELSE 0) + retries[k]

\* a step of a retry run leaves the entries of the other chunks unchanged
C9_Step ==
    (rpc # "idle" /\ ridx <= Len(failed_chunks)) =>
        \A k \in DOMAIN Entries :
            k # failed_chunks[ridx][1] => Entries'[k] = Entries[k]

\* C9: a chunk that fails in the coordinator pass has attempts 1; every retry
\* adds exactly 1 whether it succeeds or fails (so a chunk recovered by its
\* first retry is complete with attempts 2); a retry leaves the other
\* chunks' entries unchanged.
C9_AttemptAccounting == []C9_State /\ [][C9_Step]_vars

\* chunk 2 of 3 failed in the pass and was recovered by its first retry
C9_Witness ==
    /\ total = 3
    /\ pass_result[2].outcome = "fail"
    /\ retries[2] = 1
    /\ Entries[2].status = "complete"
    /\ Entries[2].attempts = 2
    /\ Entries[1].status = "complete" /\ Entries[1].attempts = 0
    /\ Entries[3].status = "complete" /\ Entries[3].attempts = 0
    /\ rpc = "idle"

C10_State ==
    \A k \in DOMAIN Entries : Entries[k].attempts <= 3 /\ calls[k] <= 3

C10_Step ==
    \A k \in DOMAIN Entries :
        (Entries[k].status = "failed" /\ Entries[k].attempts = 3) =>
            (calls'[k] = calls[k] /\ Entries'[k] = Entries[k])

\* C10: over one coordinator pass and any number of retry runs no chunk's
\* attempts exceeds 3, the analyzer is invoked at most 3 times per chunk, and
\* a chunk that is failed with attempts 3 is never analysed again.
C10_BoundedRetry == []C10_State /\ [][C10_Step]_vars

\* a chunk is exhausted after three analyzer calls and a further retry run
\* has started on another chunk
C10_Witness ==
    /\ \E k \in DOMAIN Entries :
          Entries[k].status = "failed" /\ Entries[k].attempts = 3 /\ calls[k] = 3
    /\ rpc = "analyze"

-----------------------------------------------------------------------------
(* Properties of the session state store (Spec)                            *)

\* C11: right after init_chunk_manifest(N) the manifest holds the chunk
\* numbers 1..N, each pending with attempts 0; in every state the coordinator
\* and the retry coordinator reach afterwards the chunk numbers are still
\* exactly 1..N and len(chunks) = total_chunks = N.
C11_ManifestShape ==
    /\ manifest_file # Absent =>
          /\ DOMAIN manifest_file.chunks = 1..total
          /\ Cardinality(DOMAIN manifest_file.chunks) = manifest_file.total_chunks
          /\ manifest_file.total_chunks = total
    /\ wpc = "construct" =>
          \A k \in 1..total :
              /\ manifest_file.chunks[k].status = "pending"
              /\ manifest_file.chunks[k].attempts = 0

\* a three-chunk manifest after the pass and a retry that recovered the last
\* chunk and failed again on the first
C11_Witness ==
    /\ total = 3
    /\ rpc = "idle"
    /\ retries[1] = 1 /\ Entries[1].status = "failed"
    /\ retries[3] = 1 /\ Entries[3].status = "complete"
    /\ Entries[2].status = "complete"

\* C12: once created, the status document always holds status, session_id,
\* created_at and updated_at; a complete one also holds completed_at and the
\* caller's fields, a failed one error and failed_at.
C12_StatusFields ==
    status_file # Absent =>
        /\ {"status", "session_id", "created_at", "updated_at"} \subseteq DOMAIN status_file
        /\ status_file.status = "complete" =>
              {"completed_at", "patterns_count", "decisions_count"} \subseteq DOMAIN status_file
        /\ status_file.status = "failed" =>
              {"error", "failed_at"} \subseteq DOMAIN status_file

\* the document of the last call that returned (Absent before the first)
LastReturned ==
    IF store_returned = <<>> THEN Absent
    ELSE store_returned[Len(store_returned)]

\* C13: whenever the writing process dies, a later read gives a complete
\* document: the one of the last call that returned or, when the process
\* died within a call, possibly the one that call was writing.
C13_AtomicDurable ==
    store_read # NoRead =>
        /\ store_read # JSONDecodeError
        /\ store_read \in {LastReturned, store_new}

-----------------------------------------------------------------------------
(* Properties of the merge process                                         *)

\* the ids get_active_sessions returns for a directory order
ActiveIds(order) ==
    LET active == get_active_sessions(workspaces, order)
    IN  {active[i] : i \in 1..Len(active)}

\* the status a session's workspace reports (get_status)
StatusOf(sid) ==
    IF workspaces[sid].exists
    THEN get_status(sid, workspaces[sid].status).status
    ELSE "none"

\* after a run that merged sessions and ran to its end
C14_Merged ==
    merge_clean =>
        \A i \in 1..Len(merge_completed) :
            LET sid == merge_completed[i]
            IN  /\ workspaces[sid] = NoWorkspace
                /\ \A order \in DirectoryOrders(workspaces) : sid \notin ActiveIds(order)
                /\ archive[sid].exists
                /\ archive[sid].status.status = "complete"
                /\ \A n \in DOMAIN archive[sid].memories :
                      \E f \in DOMAIN shared_memory :
                          shared_memory[f] = archive[sid].memories[n]

\* what enters the archive is the workspace as it was, under its id
C14_Archived ==
    \A sid \in Sessions :
        archive'[sid] # archive[sid] =>
            /\ archive'[sid] = workspaces[sid]
            /\ workspaces'[sid] = NoWorkspace

\* a run that follows such a run changes nothing
C14_SecondRun ==
    (merge_clean /\ merge_pc = "idle") =>
        /\ UNCHANGED <<workspaces, archive, shared_guidance, shared_memory>>
        /\ merge_pc' = "idle"

\* C14: after an uninterrupted merge that is no dry run, every complete
\* session is no longer active, its workspace is gone from sessions/ and
\* is in the archive under its id, each of its memories is in the shared
\* store, and a merge run that follows at once changes nothing.
C14_MergeSettles ==
    /\ []C14_Merged
    /\ [][C14_Archived /\ C14_SecondRun]_vars

\* both sessions were merged in one run, with memories, and a second run
\* has been made after it
C14_Witness ==
    /\ merge_clean
    /\ Len(merge_completed) = 2
    /\ merge_clock = 2
    /\ merge_pc = "idle"
    /\ DOMAIN archive[SessionId].memories = {<<"x">>, <<"y">>}
    /\ DOMAIN archive[SessionB].memories = {<<"x">>}

\* the sessions that are processing or complete
C15_Active ==
    \A order \in DirectoryOrders(workspaces) :
        ActiveIds(order) = {sid \in Sessions : StatusOf(sid) \in {"processing", "complete"}}

\* nothing of a session that is not complete reaches the shared places
C15_Apart ==
    \A sid \in Sessions :
        StatusOf(sid) \in {"processing", "failed", "unknown"} =>
            /\ archive[sid] = NoWorkspace
            /\ \A f \in DOMAIN shared_memory : shared_memory[f].owner # sid
            /\ shared_guidance.exists =>
                  \A i \in 1..Len(shared_guidance.lines) :
                      shared_guidance.lines[i] # EntryLine(sid)

\* a step leaves the workspace of a session that is not complete alone
C15_Kept ==
    \A sid \in Sessions :
        StatusOf(sid) # "complete" =>
            /\ workspaces'[sid] = workspaces[sid]
            /\ archive'[sid] = archive[sid]

\* C15: a merge acts only on complete sessions: a processing, failed or
\* unknown session keeps its workspace (status, manifest, guidance,
\* memories) and is not archived; the active sessions are exactly those
\* whose status is processing or complete.
C15_OnlyComplete ==
    /\ [](C15_Active /\ C15_Apart)
    /\ [][C15_Kept]_vars

\* one session was merged and archived while the other, still processing,
\* keeps its workspace
C15_Witness ==
    /\ merge_clean
    /\ archive[SessionId].exists
    /\ StatusOf(SessionB) = "processing"
    /\ workspaces[SessionB].guidance.exists
    /\ DOMAIN workspaces[SessionB].memories = {<<"x">>}
    /\ <<"x">> \in DOMAIN shared_memory

\* the workspace of a session, where it is now
Held(sid) == IF workspaces[sid].exists THEN workspaces[sid] ELSE archive[sid]

\* the guidance entries of a session
EntriesOf(sid) ==
    IF Held(sid).exists /\ Held(sid).guidance.exists
    THEN entry_lines(Held(sid).guidance.lines)
    ELSE <<>>

\* the places of a line in the shared guidance document
Places(line) ==
    {p \in 1..Len(shared_guidance.lines) : shared_guidance.lines[p] = line}

\* the first place of a line in the shared guidance document
FirstPlace(line) == CHOOSE p \in Places(line) : \A q \in Places(line) : p <= q

\* the guidance of the running or last merge has been consolidated
GuidanceDone == merge_pc \in {"memories", "archive"} \/ merge_clean

\* C16: after a merge every guidance entry of every merged session is in
\* the shared guidance document, after the section marker, the entries of
\* the sessions of one run in ascending order of completion time; whether
\* the shared document was absent before or existed with any content.
C16_GuidanceConsolidated ==
    GuidanceDone =>
        /\ shared_guidance.exists
        /\ \A i \in 1..Len(merge_completed) :
              \A k \in 1..Len(EntriesOf(merge_completed[i])) :
                  LET e == EntriesOf(merge_completed[i])[k]
                  IN  /\ Places(e) # {}
                      /\ insert_index(shared_guidance.lines) > 0
                      /\ FirstPlace(e) > insert_index(shared_guidance.lines)
        /\ \A i, j \in 1..Len(merge_completed) :
              LET a == merge_completed[i]
                  b == merge_completed[j]
              IN  (/\ EntriesOf(a) # <<>>
                   /\ EntriesOf(b) # <<>>
                   /\ completed_key(Held(a).status) < completed_key(Held(b).status))
                  => (/\ Places(EntriesOf(a)[1]) # {}
                      /\ Places(EntriesOf(b)[1]) # {}
                      /\ FirstPlace(EntriesOf(a)[1]) < FirstPlace(EntriesOf(b)[1]))

\* the files of the shared store that hold a session's memory
Copies(sid, n) ==
    {f \in DOMAIN shared_memory : shared_memory[f] = Memory(sid, n)}

\* C17: consolidation never duplicates, runs that die between two steps
\* and are run again included: each guidance entry is in the shared
\* guidance document once, each memory in the shared store once.
C17_NoDuplicates ==
    /\ \A sid \in Sessions : Cardinality(Places(EntryLine(sid))) <= 1
    /\ \A sid \in Sessions, n \in MemoryNames : Cardinality(Copies(sid, n)) <= 1

\* a step that relocates the memories of the session in work
C18_Relocation ==
    (merge_pc = "memories" /\ merge_pc' = "archive") =>
        LET sid == merge_completed[merge_idx]
            memories == workspaces[sid].memories
        IN  \A n \in DOMAIN memories :
                IF n \in DOMAIN shared_memory
                THEN /\ Renamed(n, sid) \in DOMAIN shared_memory'
                     /\ shared_memory'[Renamed(n, sid)] = memories[n]
                ELSE /\ n \in DOMAIN shared_memory'
                     /\ shared_memory'[n] = memories[n]

\* no step changes or removes a file of the shared store
C18_Untouched ==
    \A f \in DOMAIN shared_memory :
        /\ f \in DOMAIN shared_memory'
        /\ shared_memory'[f] = shared_memory[f]

-----------------------------------------------------------------------------
(* Properties of the merge of chunk results                                *)

Categories == {"patterns", "decisions", "todos", "preferences", "learnings"}

\* an item with its whitespace trimmed, in lower case
Normal(item) == Strip(Lower(item))

\* a category of all results, one after the other
RECURSIVE Concatenated(_, _)
Concatenated(field, n) ==
    IF n = 0 THEN <<>>
    ELSE Concatenated(field, n - 1) \o merger_results[n][field]

\* the places of a sequence whose item has no equal before it
Firsts(items) ==
    {i \in 1..Len(items) : \A j \in 1..(i - 1) : Normal(items[j]) # Normal(items[i])}

\* the items at the places `keep`, in their order
RECURSIVE Kept(_, _, _)
Kept(items, keep, i) ==
    IF i > Len(items) THEN <<>>
    ELSE (IF i \in keep THEN <<items[i]>> ELSE <<>>) \o Kept(items, keep, i + 1)

\* C19: for two or more results each of the five merged categories is the
\* concatenation of that category over the results in order, with every
\* item dropped that equals an earlier one after trimming and lower-casing:
\* first occurrences keep their text and place, no two items of the output
\* are equal under that normalisation and every input item has its equal
\* in the output; ["Use X"] and ["use x ", "Use Y"] give ["Use X", "Use Y"].
C19_MergedCategories ==
    (merger_pc = "done" /\ Len(merger_results) >= 2) =>
        \A field \in Categories :
            LET all == Concatenated(field, Len(merger_results))
                out == merger_merged[field]
            IN  /\ out = Kept(all, Firsts(all), 1)
                /\ \A i, j \in 1..Len(out) :
                      i # j => Normal(out[i]) # Normal(out[j])
                /\ \A i \in 1..Len(all) :
                      \E j \in 1..Len(out) : Normal(out[j]) = Normal(all[i])
                /\ (all = <<UseX, UseXLower, UseY>>) => out = <<UseX, UseY>>

\* the patterns ["Use X"] and ["use x ", "Use Y"] were merged
C19_Witness ==
    /\ merger_pc = "done"
    /\ Len(merger_results) = 2
    /\ merger_results[1].patterns = <<UseX>>
    /\ merger_results[2].patterns = <<UseXLower, UseY>>
    /\ merger_merged.patterns = <<UseX, UseY>>

\* C20: no result gives the empty result (five empty sequences and no
\* summary); a single result is returned as it is, without deduplication,
\* truncation of the summary or chunk label.
C20_ZeroAndOne ==
    merger_pc = "done" =>
        /\ Len(merger_results) = 0 =>
              /\ \A field \in Categories : merger_merged[field] = <<>>
              /\ merger_merged.summary = NoSummary
        /\ Len(merger_results) = 1 => merger_merged = merger_results[1]

\* a single result with a repeated item and a summary over the limit was
\* returned
C20_Witness ==
    /\ merger_pc = "done"
    /\ Len(merger_results) = 1
    /\ merger_results[1].patterns = <<UseX, UseX>>
    /\ Len(merger_results[1].summary) > SummaryLimit
    /\ merger_merged.patterns = <<UseX, UseX>>
    /\ Len(merger_merged.summary) = LongSummaryLen

-----------------------------------------------------------------------------
(* Further properties of the chunker (SpecChunk)                           *)

KnownStrategies == {"natural", "fixed", "sentences"}

\* C21: a text of at most target_size characters, the empty text included,
\* gives under every strategy exactly one chunk: the text itself, from 0 to
\* len(text), index 0 of 1, with the reason no_chunking_needed.
C21_ShortTextOneChunk ==
    (chunk_pc # "input" /\ chunk_pc # "idle" /\ Len(text) <= target_size) =>
        /\ chunk_pc = "returned"
        /\ chunks = <<Chunk(text, 0, Len(text), 0, 1, "no_chunking_needed")>>
        /\ Len(chunks) = 1
        /\ chunks[1].text = text
        /\ chunks[1].start_char = 0
        /\ chunks[1].end_char = Len(text)
        /\ chunks[1].chunk_index = 0
        /\ chunks[1].total_chunks = 1
        /\ chunks[1].boundary_reason = "no_chunking_needed"

\* a text of exactly target_size characters that holds a paragraph break
\* came back as one chunk
C21_Witness ==
    /\ chunk_pc = "returned"
    /\ strategy = "natural"
    /\ Len(text) = target_size
    /\ Len(text) >= 3
    /\ DOMAIN find_boundaries(text) # {}
    /\ Len(chunks) = 1

\* C22: for a text longer than target_size, under every strategy and with
\* min_size <= target_size, no chunk but the last is shorter than min_size.
C22_MinimumSize ==
    ( /\ chunk_pc = "returned"
      /\ Len(text) > target_size
      /\ min_size <= target_size )
    => \A i \in 1..(Len(chunks) - 1) :
          /\ Len(chunks[i].text) >= min_size
          /\ chunks[i].end_char - chunks[i].start_char >= min_size

\* a natural split that passed over a paragraph break closer than min_size
\* and cut at a later one
C22_Witness ==
    /\ chunk_pc = "returned"
    /\ strategy = "natural"
    /\ min_size >= 3
    /\ Len(chunks) >= 2
    /\ chunks[1].boundary_reason = "paragraph_break"
    /\ \E b \in DOMAIN find_boundaries(text) : b < min_size

\* C24: chunk() with a strategy name other than natural, fixed or
\* sentences fails with the unknown-strategy error and returns no chunks,
\* for every text, those of at most target_size characters included.
C24_UnknownStrategyFails ==
    (chunk_pc \in {"returned", "raised"} /\ strategy \notin KnownStrategies) =>
        /\ chunk_pc = "raised"
        /\ chunks = <<>>

\* the statement as made: three chunks, whatever the boundary positions
C23_AlwaysThreeChunks ==
    split_pc = "done" => Len(split_spans) = 3

\* C23: a text of 400,000 characters, with target_size 150000 and min_size
\* 50000, gives under the natural strategy exactly 3 chunks when it holds no
\* boundary position (cuts at 150000 and 300000); with boundary positions
\* it gives 2, 3 or 4 chunks, which tile the text.
C23_TwoToFourChunks ==
    split_pc = "done" =>
        /\ Len(split_spans) \in {2, 3, 4}
        /\ DOMAIN split_boundaries = {} =>
              split_spans = <<(<<0, DefaultChunkSize>>),
                              <<DefaultChunkSize, 2 * DefaultChunkSize>>,
                              <<2 * DefaultChunkSize, LongTextLength>>>>
        /\ split_spans[1][1] = 0
        /\ split_spans[Len(split_spans)][2] = LongTextLength
        /\ \A i \in 2..Len(split_spans) : split_spans[i][1] = split_spans[i - 1][2]

\* a single boundary at 50000 gave four chunks
C23_Witness ==
    /\ split_pc = "done"
    /\ DOMAIN split_boundaries = {MinChunkSize}
    /\ split_spans = <<(<<0, 50000>>), <<50000, 200000>>, <<200000, 350000>>,
                       <<350000, 400000>>>>

-----------------------------------------------------------------------------
(* Further properties of the worker and the retry coordinator (Spec)       *)

\* the worker is between lockfile.touch() and the finally clause
WorkerInTry ==
    wpc \in {"locked", "single", "chunking", "construct", "loop", "analyze",
             "post", "finally"}

\* C25: the in-progress marker is created at the start of a worker run,
\* exists for as long as the worker runs, and is absent after every exit
\* that is not abrupt: success, handled failure (missing transcript) and
\* uncaught error.
C25_MarkerLifecycle ==
    /\ wpc \in {"start", "created"} => ~lockfile
    /\ WorkerInTry => lockfile
    /\ wpc = "exited" => ~lockfile

\* the worker left through the finally clause after an uncaught error: no
\* status was written after create, the marker is gone
C25_Witness ==
    /\ wpc = "exited"
    /\ ~lockfile
    /\ status_file.status = "processing"
    /\ manifest_file # Absent

\* the fields a caller passes to update_chunk_status: none, a failure with a
\* new attempt count, a completion, a start
C30_Fields ==
    {<<>>,
     [error |-> "Test error", attempts |-> 2],
     [completed_at |-> Now, retried |-> TRUE],
     [started_at |-> Now]}

\* the entry update_chunk_status starts from
C30_Before(file, k) ==
    IF k \in DOMAIN file.chunks THEN file.chunks[k] ELSE [attempts |-> 0]

\* update_chunk_status on the manifest of the state, for every chunk number
\* (the one past the last has no entry), status and field set
C30_Call ==
    manifest_file # Absent =>
        \A k \in 1..(MaxChunks + 1) :
        \A st \in {"pending", "processing", "complete", "failed"} :
        \A md \in C30_Fields :
            LET new == update_chunk_status(manifest_file, k, st, md)
                before == C30_Before(manifest_file, k)
                kept == DOMAIN before \ (DOMAIN md \cup {"status", "updated_at"})
            IN /\ DOMAIN new = DOMAIN manifest_file
               /\ new.session_id = manifest_file.session_id
               /\ new.total_chunks = manifest_file.total_chunks
               /\ new.created_at = manifest_file.created_at
               /\ DOMAIN new.chunks = DOMAIN manifest_file.chunks \cup {k}
               /\ \A j \in DOMAIN manifest_file.chunks \ {k} :
                      new.chunks[j] = manifest_file.chunks[j]
               /\ DOMAIN new.chunks[k] =
                      DOMAIN before \cup DOMAIN md \cup {"status", "updated_at"}
               /\ new.chunks[k].status = st
               /\ new.chunks[k].updated_at = Now
               /\ \A f \in DOMAIN md : new.chunks[k][f] = md[f]
               /\ \A f \in kept : new.chunks[k][f] = before[f]

\* a step of the worker or of the retry coordinator that rewrites the
\* manifest changes one entry: its status is set, none of its fields is
\* lost, the other entries and the head of the manifest stay
C30_Step ==
    (manifest_file # Absent /\ manifest_file' # manifest_file) =>
        /\ manifest_file'.session_id = manifest_file.session_id
        /\ manifest_file'.total_chunks = manifest_file.total_chunks
        /\ manifest_file'.created_at = manifest_file.created_at
        /\ DOMAIN manifest_file'.chunks = DOMAIN manifest_file.chunks
        /\ \E k \in DOMAIN manifest_file.chunks :
              /\ \A j \in DOMAIN manifest_file.chunks \ {k} :
                    manifest_file'.chunks[j] = manifest_file.chunks[j]
              /\ DOMAIN manifest_file.chunks[k] \subseteq DOMAIN manifest_file'.chunks[k]
              /\ manifest_file'.chunks[k].updated_at = Now
              /\ manifest_file'.chunks[k].created_at = manifest_file.chunks[k].created_at

\* C30: update_chunk_status(k, status, fields) on an initialised manifest
\* changes only entry k: it sets status and updated_at, merges the caller's
\* fields, keeps the other stored fields of the entry (attempts too, unless
\* supplied) and starts from attempts = 0 when the entry is absent; every
\* other entry and session_id, total_chunks, created_at are unchanged
C30_UpdateChunkOnlyEntry == [][C30_Step]_vars /\ []C30_Call

\* a manifest with a failed entry that counts an attempt, a complete entry
\* with its counts and an entry not yet touched
C30_Witness ==
    /\ manifest_file # Absent
    /\ \E k, j, m \in DOMAIN manifest_file.chunks :
          /\ manifest_file.chunks[k].status = "failed"
          /\ manifest_file.chunks[k].attempts >= 1
          /\ manifest_file.chunks[j].status = "complete"
          /\ "patterns_count" \in DOMAIN manifest_file.chunks[j]
          /\ "updated_at" \notin DOMAIN manifest_file.chunks[m]

\* the analyzer input the coordinator is to persist for chunk i: the text
\* alone for chunk 1 and after a chunk whose analysis failed (it has no
\* result), otherwise the context of chunk i-1's result, the delimiter and
\* the text
C28_Input(i) ==
    IF i > 1 /\ pass_result[i - 1].outcome = "ok"
    THEN chunk_text_with_context(to_context_summary(pass_result[i - 1].result),
                                 chunk_text(i))
    ELSE [text |-> chunk_text(i)]

\* C28: the analyzer input persisted for chunk 1 is the chunk's own text;
\* for a chunk i > 1 it is the context derived from the result of chunk i-1
\* alone, the delimiter and the text of chunk i; the context of a chunk
\* before i-1 never appears in it
C28_ContextFromPreviousChunkOnly ==
    \A i \in DOMAIN parsed_files : parsed_files[i] = C28_Input(i)

\* chunk 1 analysed, chunk 2 failed, and the input persisted for chunk 3
\* carries the context of chunk 1's result
C28_StaleContext ==
    /\ 3 \in DOMAIN parsed_files
    /\ pass_result[1].outcome = "ok"
    /\ pass_result[2].outcome = "fail"
    /\ parsed_files[3] = chunk_text_with_context(
                             to_context_summary(pass_result[1].result), chunk_text(3))

\* a step of the retry run
C29_RetryStep == retryVars' # retryVars

\* the chunk in work when the retry run rewrites the manifest
C29_Retried == failed_chunks[ridx][1]

\* what a step of the retry run leaves alone: the chunk inputs, the merged
\* artifact, the session status, the marker, the session's guidance and
\* memories and the shared ones, and every manifest entry but that of the
\* chunk it is retrying, which was failed when the run began
C29_Step ==
    C29_RetryStep =>
        /\ parsed_files' = parsed_files
        /\ merged_file' = merged_file
        /\ status_file' = status_file
        /\ lockfile' = lockfile
        /\ UNCHANGED mergeVars
        /\ manifest_file' # manifest_file =>
              /\ rpc \in {"loop", "analyze"}
              /\ failed_chunks' = failed_chunks
              /\ failed_chunks[ridx][2].status = "failed"
              /\ DOMAIN manifest_file'.chunks = DOMAIN manifest_file.chunks
              /\ \A j \in DOMAIN manifest_file.chunks \ {C29_Retried} :
                    manifest_file'.chunks[j] = manifest_file.chunks[j]

\* while the retry's analyzer runs, its input is the chunk file as the
\* coordinator wrote it on the first pass
C29_State ==
    rpc = "analyze" =>
        /\ C29_Retried \in DOMAIN parsed_files
        /\ retry_input = parsed_files[C29_Retried]
        /\ retry_input = chunk_text_with_context(
                             IF "context" \in DOMAIN retry_input
                             THEN retry_input.context ELSE <<>>,
                             chunk_text(C29_Retried))

\* C29: a retry run analyses each retried chunk against the chunk input the
\* coordinator persisted on the first pass and changes only the manifest
\* entries of the chunks it retries (and the log and the raw analyzer
\* outputs): it never rewrites a persisted chunk input, never touches the
\* entry of another chunk, never changes the merged artifact, the memories
\* or the guidance
C29_RetryFrame == [][C29_Step]_vars /\ []C29_State

\* a chunk whose input carries a context was recovered by a retry, the
\* merged artifact of the first pass is on disk
C29_Witness ==
    /\ rpc = "idle"
    /\ merged_file # Absent
    /\ \E k \in DOMAIN parsed_files :
          /\ "context" \in DOMAIN parsed_files[k]
          /\ pass_result[k].outcome = "fail"
          /\ manifest_file.chunks[k].status = "complete"
          /\ "retried" \in DOMAIN manifest_file.chunks[k]

-----------------------------------------------------------------------------
(* Properties of an abandoned session (SpecAbandon)                        *)

\* the worker died after its workspace was made and before it wrote a
\* final status
C27_Abandoned ==
    /\ wpc = "dead"
    /\ status_file # Absent
    /\ status_file.status = "processing"

\* no step of a retry run or of a merge run changes the status document of
\* an abandoned session, and no merge run takes the session: its workspace
\* stays, nothing of it reaches the archive or the shared documents
C27_Step ==
    C27_Abandoned =>
        /\ status_file' = status_file
        /\ wpc' = wpc
        /\ archive' = archive
        /\ shared_guidance' = shared_guidance
        /\ shared_memory' = shared_memory
        /\ parsed_files' = parsed_files
        /\ merged_file' = merged_file

\* C27: when the worker dies abruptly after workspace creation and before
\* its final status write, the status document stays processing in every
\* later state that runs of the retry tool and of the merge reach: no step
\* changes it and the session is never selected for merge
C27_AbandonedStaysProcessing == [][C27_Step]_vars

\* an abandoned session after a merge run and a retry that recovered a chunk
C27_Witness ==
    /\ C27_Abandoned
    /\ merge_clock >= 1
    /\ rpc = "idle"
    /\ success_count >= 1
    /\ archive[SessionId] = NoWorkspace

-----------------------------------------------------------------------------
(* Properties of two sessions side by side (SpecSessions)                  *)

\* the path lies in the workspace of the session: status document,
\* manifest, log, and the parsed, analyses and memories areas
InWorkspace(path, sid) ==
    LET root == <<".ai", "subconscious", ".ai", "sessions", sid>>
    IN  Len(path) > Len(root) /\ SubSeq(path, 1, Len(root)) = root

\* the files of the session's workspace
Area(tree, sid) == {path \in DOMAIN tree : InWorkspace(path, sid)}

\* a step addressed to one session leaves every file of the other
\* session's workspace as it was, and makes none there
C26_Step ==
    \A b \in Sessions \ {addressed'} :
        /\ Area(fs', b) = Area(fs, b)
        /\ \A path \in Area(fs, b) : fs'[path] = fs[path]

\* C26: sessions are isolated by partitioning: a state-store operation, a
\* coordinator step or a retry step addressed to session A leaves session
\* B's status document, manifest, log and content areas unchanged, in every
\* interleaving of the two sessions' steps
C26_SessionsIsolated == [][C26_Step]_vars

\* one session has a chunk recovered by a retry while the other, begun
\* before the first ended, is in the middle of an analysis
C26_Witness ==
    /\ sess[SessionB].pc = "analyze"
    /\ sess[SessionId].pc = "exited"
    /\ \E k \in 1..MaxSessionChunks :
          /\ raw_file(SessionId, k) \in DOMAIN fs
          /\ fs[raw_file(SessionId, k)] = ResultB
          /\ chunk_file(SessionB, k) \in DOMAIN fs
    /\ SessionWorkspace(SessionB).log_file \in DOMAIN fs
    /\ fs[SessionWorkspace(SessionId).status_file].status = "complete"
    /\ fs[SessionWorkspace(SessionB).status_file].status = "processing"

-----------------------------------------------------------------------------
(* Completion, retry and the chunk lifecycle (Spec)                        *)

\* the manifest holds an entry in status failed
HasFailedChunk ==
    /\ manifest_file # Absent
    /\ \E k \in DOMAIN manifest_file.chunks :
          manifest_file.chunks[k].status = "failed"

\* C32: while the manifest of a session holds a chunk in status failed
\* (retries exhausted at the cap of 3 attempts or not) the session is
\* incomplete: its status is never complete in such a state
C32_FailedChunkBlocksCompletion ==
    HasFailedChunk => get_status(SessionId, status_file).status # "complete"

\* the session is complete while a chunk has used up its three attempts
C32_ExhaustedAndComplete ==
    /\ status_file # Absent
    /\ status_file.status = "complete"
    /\ manifest_file # Absent
    /\ \E k \in DOMAIN manifest_file.chunks :
          /\ manifest_file.chunks[k].status = "failed"
          /\ manifest_file.chunks[k].attempts = MaxAttempts

\* C33: once the status of a session is complete a retry run analyses no
\* chunk of it and changes no manifest entry
C33_NoRetryOnceComplete ==
    [][(status_file # Absent /\ status_file.status = "complete") =>
          /\ manifest_file' = manifest_file
          /\ retries' = retries
          /\ calls' = calls]_vars

\* a chunk of a complete session was analysed again and recovered by a retry
C33_RetriedWhileComplete ==
    /\ status_file # Absent
    /\ status_file.status = "complete"
    /\ manifest_file # Absent
    /\ \E k \in DOMAIN manifest_file.chunks :
          /\ retries[k] >= 1
          /\ manifest_file.chunks[k].status = "complete"
          /\ "retried" \in DOMAIN manifest_file.chunks[k]

-----------------------------------------------------------------------------
(* Properties of concurrent manifest updates (SpecRace)                    *)

\* process p is between the load and the write of update_chunk_status
InCall(p) == race_pc[p] \in {"store_processing", "store_result"}

\* the write of a call puts every entry but its own back to what the call
\* loaded, whatever another process wrote in between
C31_Step ==
    \A p \in Procs :
        (InCall(p) /\ ~InCall(p)') =>
            \A j \in DOMAIN race_doc'.chunks \ {race_call[p].chunk_no} :
                race_doc'.chunks[j] = race_snap[p].chunks[j]

\* C31: the manifest update is an unlocked read-modify-write of the whole
\* document: with a worker and a retry run executing update_chunk_status on
\* the same session at once, on different chunks, there is an interleaving
\* in which both calls return and the update of one is overwritten and lost
C31_UnlockedReadModifyWrite == [][C31_Step]_vars

\* both processes are out of their calls, and the status a returned call
\* gave to a chunk is not in the manifest: a later write undid it
C31_Witness ==
    /\ \A p \in Procs : ~InCall(p)
    /\ \E lost \in race_lost : race_doc.chunks[lost[1]].status # lost[2]
    /\ race_pc["worker"] = "loop" /\ race_k["worker"] > race_doc.total_chunks
    /\ race_pc["retry"] = "loop" /\ race_failed = <<>>

\* the status transitions of a manifest entry
Lifecycle ==
    {<<"pending", "processing">>, <<"processing", "complete">>,
     <<"processing", "failed">>, <<"failed", "processing">>}

\* the entry goes from old to new along the lifecycle (or stays) and its
\* attempts do not decrease
LegalChange(old, new) ==
    /\ old.status = new.status \/ <<old.status, new.status>> \in Lifecycle
    /\ Get(new, "attempts", 0) >= Get(old, "attempts", 0)
    /\ old.status = "complete" => new = old

\* a step of the worker or a retry run on the manifest
C35_Step ==
    (manifest_file # Absent /\ manifest_file' # Absent) =>
        \A k \in DOMAIN manifest_file.chunks :
            /\ LegalChange(manifest_file.chunks[k], manifest_file'.chunks[k])
            /\ manifest_file.chunks[k].status = "complete" => calls'[k] = calls[k]
            /\ (manifest_file.chunks[k].status = "failed" /\
                manifest_file'.chunks[k].status = "processing") =>
                    /\ rpc = "loop" /\ rpc' = "analyze"
                    /\ retries'[k] = retries[k] + 1

\* C35: in every execution of the coordinator and the retry coordinator the
\* only status transitions of a manifest entry are pending -> processing,
\* processing -> complete, processing -> failed and, by retry only, failed ->
\* processing; a complete entry stays complete and is not analysed again;
\* the attempts of an entry never decrease
C35_ChunkLifecycle == [][C35_Step]_vars

\* a chunk failed in the pass, failed again in its first retry and was
\* recovered by the second
C35_Witness ==
    /\ manifest_file # Absent
    /\ \E k \in DOMAIN manifest_file.chunks :
          /\ pass_result[k].outcome = "fail"
          /\ retries[k] = 2
          /\ manifest_file.chunks[k].status = "complete"
          /\ manifest_file.chunks[k].attempts = 3

\* C36: a chunk left in status processing or pending (the worker died in
\* the middle of the pass) is never returned by get_failed_chunks: no retry
\* run analyses it again or changes its entry
C36_State ==
    \A i \in DOMAIN failed_chunks :
        /\ failed_chunks[i][2].status = "failed"
        /\ rpc = "idle" \/ i < ridx \/
              get_chunk_manifest(manifest_file).chunks[failed_chunks[i][1]].status
                  \in {"failed", "processing"}

C36_Step ==
    (wpc \in {"dead", "exited"} /\ manifest_file # Absent) =>
        \A k \in DOMAIN manifest_file.chunks :
            (/\ manifest_file.chunks[k].status \in {"pending", "processing"}
             /\ ~(rpc = "analyze" /\ failed_chunks[ridx][1] = k)) =>
                /\ manifest_file'.chunks[k] = manifest_file.chunks[k]
                /\ calls'[k] = calls[k]
                /\ retries'[k] = retries[k]

C36_StuckChunksStayStuck == []C36_State /\ [][C36_Step]_vars

\* the worker died while chunk 2 was being analysed: after a retry run that
\* recovered chunk 1, chunk 2 is still processing and chunk 3 still pending
C36_Witness ==
    /\ wpc = "dead"
    /\ rpc = "idle"
    /\ success_count >= 1
    /\ manifest_file # Absent
    /\ \E k, j \in DOMAIN manifest_file.chunks :
          /\ manifest_file.chunks[k].status = "processing"
          /\ retries[k] = 0
          /\ manifest_file.chunks[j].status = "pending"

\* the chunks the pass analysed with success, in ascending order
OkChunks == SortedSeq({k \in 1..total : pass_result[k].outcome = "ok"})

\* the positions in the list of successful results of those with a summary
Summarised ==
    SelectSeq([i \in 1..Len(OkChunks) |-> i],
              LAMBDA i : HasSummary(pass_result[OkChunks[i]].result))

\* the label of each summary carries the position of its result in the list
C39_Labels ==
    [j \in 1..Len(Summarised) |->
        SummaryLabel(Summarised[j], pass_result[OkChunks[Summarised[j]]].result)]

\* C39: in the merged summary of a coordinator pass the number in the label
\* of a per-chunk summary is the 1-based position of that result in the list
\* of successful results handed to the merger; it is the manifest number of
\* the chunk only when no chunk of a lower number failed
C39_LabelIsListPosition ==
    (merged_file # Absent /\ Len(OkChunks) >= 2) =>
        /\ merged_file.summary =
              IF C39_Labels # <<>> THEN join_blank(C39_Labels) ELSE NoSummary
        /\ \A i \in 1..Len(OkChunks) :
              (i = OkChunks[i]) <=>
                  (\A k \in 1..(OkChunks[i] - 1) : pass_result[k].outcome # "fail")

\* chunk 1 failed: the summaries of chunks 2 and 3 are labelled 1 and 2; or
\* the result of chunk 1 has no summary and that of chunk 2 is labelled 2
C39_Witness ==
    /\ merged_file # Absent
    /\ total = 3
    /\ pass_result[1].outcome = "fail"
    /\ pass_result[2].outcome = "ok" /\ HasSummary(pass_result[2].result)
    /\ pass_result[3].outcome = "ok" /\ HasSummary(pass_result[3].result)
    /\ merged_file.summary =
          join_blank(<<SummaryLabel(1, pass_result[2].result),
                       SummaryLabel(2, pass_result[3].result)>>)

InitContext ==
    /\ ChunkerIdle /\ PipelineIdle /\ StoreIdle /\ MergeIdle /\ MergerIdle
    /\ SplitIdle /\ SessIdle /\ RaceIdle /\ ContextInputs /\ SelectIdle

NextContext == ContextCall

SpecContext == InitContext /\ [][NextContext]_vars

-----------------------------------------------------------------------------
(* Properties of the condensed context (SpecContext)                       *)

\* the items of the context text: its "- item" lines, without the dash
ContextItems ==
    LET item_lines == SelectSeq(ctx_text, LAMBDA l : l # <<>> /\ l[1] = "- ")
    IN  [i \in 1..Len(item_lines) |-> Tail(item_lines[i])]

\* the first three items of a list, in their order
FirstThree(items) == [i \in 1..(IF Len(items) < 3 THEN Len(items) ELSE 3) |-> items[i]]

\* the summary lines of the context text
ContextSummaryLines ==
    SelectSeq(ctx_text, LAMBDA l : l # <<>> /\ l[1] = "**Summary**: ")

\* C40: the condensed context of a result holds the first 3 decisions, the
\* first 3 patterns and the first 3 todos of the result in their order, its
\* summary when it has one, and no preference and no learning
C40_CondensedContext ==
    ctx_pc = "done" =>
        /\ ContextItems = FirstThree(ctx_result.decisions)
                              \o FirstThree(ctx_result.patterns)
                              \o FirstThree(ctx_result.todos)
        /\ ContextSummaryLines =
              IF HasSummary(ctx_result)
              THEN <<(<<"**Summary**: ">> \o ctx_result.summary)>> ELSE <<>>
        /\ \A i \in 1..Len(ctx_text) : \A j \in 1..Len(ctx_text[i]) :
              /\ \A x \in Range(ctx_result.preferences) :
                    j + 1 \in 1..Len(ctx_text[i]) =>
                        <<ctx_text[i][j], ctx_text[i][j + 1]>> # x
              /\ \A x \in Range(ctx_result.learnings) :
                    j + 1 \in 1..Len(ctx_text[i]) =>
                        <<ctx_text[i][j], ctx_text[i][j + 1]>> # x

\* a result with more than three items in each list of the context, with
\* preferences, a learning and a summary, whose context has been computed
C40_Witness ==
    /\ ctx_pc = "done"
    /\ Len(ctx_result.decisions) > 3
    /\ Len(ctx_result.patterns) > 3
    /\ Len(ctx_result.todos) > 3
    /\ ctx_result.preferences # <<>>
    /\ ctx_result.learnings # <<>>
    /\ HasSummary(ctx_result)
    /\ Len(ContextItems) = 9

InitSelect ==
    /\ SelectInputs /\ PipelineIdle /\ StoreIdle /\ MergeIdle /\ MergerIdle
    /\ SplitIdle /\ SessIdle /\ RaceIdle /\ CtxIdle

NextSelect == SelectBreak \/ SelectSplit \/ SelectChunks

SpecSelect == InitSelect /\ [][NextSelect]_vars

\* the call runs on: a step is taken whenever one is possible
SpecSelectFair == SpecSelect /\ WF_vars(NextSelect)

-----------------------------------------------------------------------------
(* Properties of the natural strategy's split points (SpecSelect)          *)

\* the boundary positions in the range searched from cursor c
Window(c) ==
    {b \in DOMAIN sel_boundaries :
        /\ c + min_size <= b
        /\ b <= c + target_size + (target_size \div 2)
        /\ b <= Len(text)}

\* p is the position of the set nearest to t, the smaller one on a tie
Nearest(p, ps, t) ==
    /\ p \in ps
    /\ \A q \in ps : \/ Abs(p - t) < Abs(q - t)
                     \/ (Abs(p - t) = Abs(q - t) /\ p <= q)

\* the cursor after the last split
LastCursor == IF sel_points = <<>> THEN 0 ELSE sel_points[Len(sel_points)]

\* the split made from the cursor where chunk i starts is the one described
C34_Split(i) ==
    LET c == chunks[i].start_char
        t == c + target_size
    IN  /\ t < Len(text)
        /\ chunks[i].end_char = sel_points[i]
        /\ IF Window(c) # {}
           THEN /\ Nearest(sel_points[i], Window(c), t)
                /\ chunks[i].boundary_reason = sel_boundaries[sel_points[i]]
           ELSE /\ sel_points[i] = t
                /\ chunks[i].boundary_reason = "target_size_reached"

\* C34: from cursor c with target t = c + target_size < len(text) the split
\* point is the boundary of [c + min_size, min(t + target_size // 2, len)]
\* nearest to t, the smaller on a tie, with that boundary's pattern name as
\* the reason, or t with reason target_size_reached when the range holds no
\* boundary; with t >= len(text) no split is made and the remainder is the
\* final chunk, reason end_of_conversation
C34_NaturalSplitSelection ==
    sel_pc = "done" =>
        /\ \A i \in 1..Len(sel_points) : C34_Split(i)
        /\ LastCursor < Len(text) =>
              /\ LastCursor + target_size >= Len(text)
              /\ Len(chunks) = Len(sel_points) + 1
              /\ chunks[Len(chunks)].start_char = LastCursor
              /\ chunks[Len(chunks)].end_char = Len(text)
              /\ chunks[Len(chunks)].boundary_reason = "end_of_conversation"
        /\ LastCursor >= Len(text) => Len(chunks) = Len(sel_points)

\* a split at the target, where no boundary is in the range, that carries
\* the pattern name of a boundary behind the range
C34_TargetSplitNamedAsBoundary ==
    /\ sel_pc = "done"
    /\ \E i \in 1..Len(sel_points) :
          /\ Window(chunks[i].start_char) = {}
          /\ sel_points[i] = chunks[i].start_char + target_size
          /\ chunks[i].boundary_reason # "target_size_reached"

\* the split points so far are strictly increasing positions of 1..len(text)
C37_State ==
    /\ \A i \in 1..Len(sel_points) :
          sel_points[i] > 0 /\ sel_points[i] <= Len(text)
    /\ \A i \in 1..(Len(sel_points) - 1) : sel_points[i] < sel_points[i + 1]

\* C37: with target_size >= 1 and min_size >= 1 the selection of split
\* points ends, for every text length and every set of boundary positions,
\* and the split points are strictly increasing, each greater than 0 and at
\* most len(text)
C37_SelectionTerminates ==
    /\ [](target_size >= 1 /\ min_size >= 1 => C37_State)
    /\ (target_size >= 1 /\ min_size >= 1) ~> (sel_pc # "loop")

\* the loop has ended after a split at a boundary and a split at the target,
\* with a minimum size above the target size
C37_Witness ==
    /\ sel_pc = "selected"
    /\ min_size > target_size
    /\ Len(sel_points) >= 2
    /\ \E i \in 1..Len(sel_points) : sel_points[i] \in DOMAIN sel_boundaries
    /\ \E i \in 1..Len(sel_points) : sel_points[i] \notin DOMAIN sel_boundaries

\* C38: with 1 <= min_size <= target_size every chunk of the natural
\* strategy has at most target_size + target_size // 2 characters, a chunk
\* whose reason is target_size_reached has exactly target_size, and the
\* final end_of_conversation chunk has at most target_size
C38_NaturalSizeBound ==
    (sel_pc = "done" /\ 1 <= min_size /\ min_size <= target_size) =>
        \A i \in 1..Len(chunks) :
            /\ Len(chunks[i].text) = chunks[i].end_char - chunks[i].start_char
            /\ Len(chunks[i].text) <= target_size + (target_size \div 2)
            /\ chunks[i].boundary_reason = "target_size_reached" =>
                  Len(chunks[i].text) = target_size
            /\ chunks[i].boundary_reason = "end_of_conversation" =>
                  /\ i = Len(chunks)
                  /\ Len(chunks[i].text) <= target_size

\* a chunk of the largest size, a chunk cut at the target and a final chunk
\* in one list
C38_Witness ==
    /\ sel_pc = "done"
    /\ min_size <= target_size
    /\ target_size >= 2
    /\ \E i \in 1..Len(chunks) :
          Len(chunks[i].text) = target_size + (target_size \div 2)
    /\ \E i \in 1..Len(chunks) : chunks[i].boundary_reason = "target_size_reached"
    /\ chunks[Len(chunks)].boundary_reason = "end_of_conversation"

=============================================================================
